---- MODULE Spec2Model ----
(***************************************************************************)
(* Grid path-finding exercises of the repository:                          *)
(*   AI3    src/AI_CLASSWORK/AI3.py       MazeSolver (BFS, DFS, UCS)        *)
(*   PF     src/AI_CLASSWORK/Main (2).py  PathfindingApp (A*, greedy)       *)
(*   Maze   src/AI_CLASSWORK/Main.py      MazeSolver (animated BFS)         *)
(* and the two article summarizers, whose worker threads hand their result  *)
(* to the window through Qt signals:                                       *)
(*   Summarizer         src/assignement2/main.py              SummarizerApp *)
(*   ArticleSummarizer  src/summarizer_app_assignment/main.py               *)
(*   Summarizer_App     src/Summarizer_App/main.py                          *)
(* and the Sudoku window:                                                  *)
(*   Sudoku  src/AI_CLASSWORK/Main (3).py  SudokuSolver                     *)
(* A cell is a pair <<row, col>>, 0-indexed.  Python's None is the string   *)
(* "None".  A Python dict is a function whose DOMAIN is the set of keys.    *)
(***************************************************************************)
EXTENDS Integers, Sequences, FiniteSets, TLC

None == "None"

\* ---------------------------------------------------------------- bounds
\* Grid dimensions of the three programs, scaled down from the source's
\* 10x10 (AI3.py, Main.py) and 20x30 (Main (2).py).
ROWS == 3
COLS == 5
GRID_ROWS == 3
GRID_COLS == 5
\* Largest number of wall cells in the layouts the searches are applied to:
\* MaxWalls under SpecSearch, MaxWallsPF under SpecSearchPF.
MaxWalls == 2
MaxWallsPF == 3
\* Grid of Main.py, scaled down from 10x10.
MAZE_ROWS == 2
MAZE_COLS == 3
\* Largest number of solve_bfs calls of Main.py that are active at once (a
\* call started from QApplication.processEvents() of another counts).
MaxNesting == 1
\* Number of cells, the first ones of row 0, that the predecessor dicts handed
\* to the path reconstructions of SpecChain are drawn over.
MaxChain == 4
MaxWallsRerun == 1
MaxPqRerun == 24
MaxRuns == 3
\* Sudoku board of Main (3).py: boxes of BOX x BOX cells (3 in the source, so a
\* board of 4x4 cells with the digits 1 .. 4 here) and the number of cells
\* start_new_game blanks (40 in the source).
BOX == 2
CellsToRemove == 1
\* The user types into the first EntryCols cells of row 0 of the Sudoku board,
\* into given cells as well as empty ones.
EntryCols == 1
\* Mouse clicks land in the top-left ClickRows x ClickCols corner of a grid.
ClickRows == 2
ClickCols == 2
\* run_algorithm is explored while pq_counter is below this value.
MaxPqCounter == 4

Cells == (0 .. ROWS - 1) \X (0 .. COLS - 1)
GridCells == (0 .. GRID_ROWS - 1) \X (0 .. GRID_COLS - 1)
ClickCells == (0 .. ClickRows - 1) \X (0 .. ClickCols - 1)
MazeCells == (0 .. MAZE_ROWS - 1) \X (0 .. MAZE_COLS - 1)

\* ------------------------------------------------------------- utilities
Abs(x) == IF x < 0 THEN -x ELSE x

\* The four moves in the order the source lists them: up, down, left, right.
directions == << <<-1, 0>>, <<1, 0>>, <<0, -1>>, <<0, 1>> >>

\* dict[key] = value
Put(d, k, v) == (k :> v) @@ d

EmptyDict == << >>

Reverse(s) == [i \in 1 .. Len(s) |-> s[Len(s) + 1 - i]]

SeqRange(s) == {s[i] : i \in 1 .. Len(s)}

\* --------------------------------------------------------------- AI3.py
\* self.state[r][c]: 0 empty, 1 wall, 2 start, 3 goal.

\* get_neighbors with the four diagonal moves added.
get_neighbors_diagonal(st, pos) ==
    LET moves == directions \o << <<-1, -1>>, <<-1, 1>>, <<1, -1>>, <<1, 1>> >>
        cand == [i \in 1 .. 8 |-> <<pos[1] + moves[i][1], pos[2] + moves[i][2]>>]
        ok(n) == /\ 0 <= n[1] /\ n[1] < ROWS
                 /\ 0 <= n[2] /\ n[2] < COLS
                 /\ st[n] # 1
    IN  SelectSeq(cand, ok)

\* MazeSolver.get_neighbors: the in-bounds, non-wall neighbours, in order.
get_neighbors(st, pos) ==
    LET cand == [i \in 1 .. 4 |-> <<pos[1] + directions[i][1], pos[2] + directions[i][2]>>]
        ok(n) == /\ 0 <= n[1] /\ n[1] < ROWS
                 /\ 0 <= n[2] /\ n[2] < COLS
                 /\ st[n] # 1
    IN  SelectSeq(cand, ok)

\* The body of `for neighbor in self.get_neighbors(current)` of solve_bfs and
\* solve_dfs, over the neighbours ns[i..]; s is the loop state.
RECURSIVE ListVisit(_, _, _, _)
ListVisit(s, cur, ns, i) ==
    IF i > Len(ns) THEN s
    ELSE LET n == ns[i]
         IN  IF n \notin s.visited
             THEN ListVisit([s EXCEPT !.visited = @ \cup {n},
                                      !.parent = Put(@, n, cur),
                                      !.frontier = Append(@, n)],
                            cur, ns, i + 1)
             ELSE ListVisit(s, cur, ns, i + 1)

\* State of solve_bfs / solve_dfs before the while loop.  frontier is the
\* queue or stack; popped and expanded record, in order, the cells the loop
\* took from the frontier and the cells whose neighbours it examined.
ListSearchInit(start) ==
    [frontier |-> <<start>>, visited |-> {start}, parent |-> EmptyDict,
     popped |-> << >>, expanded |-> << >>, status |-> "running"]

\* BfsIter taking the newest entry of the queue (queue.pop()).
BfsIter_pop(st, goal, s) ==
    LET cur == s.frontier[Len(s.frontier)]
        s1 == [s EXCEPT !.frontier = SubSeq(@, 1, Len(@) - 1), !.popped = Append(@, cur)]
    IN  IF cur = goal THEN [s1 EXCEPT !.status = "found"]
        ELSE ListVisit([s1 EXCEPT !.expanded = Append(@, cur)],
                       cur, get_neighbors(st, cur), 1)

\* One iteration of `while queue:` of solve_bfs (queue.popleft()).
BfsIter(st, goal, s) ==
    LET cur == Head(s.frontier)
        s1 == [s EXCEPT !.frontier = Tail(@), !.popped = Append(@, cur)]
    IN  IF cur = goal THEN [s1 EXCEPT !.status = "found"]
        ELSE ListVisit([s1 EXCEPT !.expanded = Append(@, cur)],
                       cur, get_neighbors(st, cur), 1)

\* DfsIter that also ends the search when the goal is among the cells it has
\* just pushed.
DfsIter_early(st, goal, s) ==
    LET cur == s.frontier[Len(s.frontier)]
        s1 == [s EXCEPT !.frontier = SubSeq(@, 1, Len(@) - 1), !.popped = Append(@, cur)]
        s2 == ListVisit([s1 EXCEPT !.expanded = Append(@, cur)],
                        cur, get_neighbors(st, cur), 1)
    IN  IF cur = goal THEN [s1 EXCEPT !.status = "found"]
        ELSE IF goal \in s2.visited THEN [s2 EXCEPT !.status = "found"]
        ELSE s2

\* One iteration of `while stack:` of solve_dfs (stack.pop()).
DfsIter(st, goal, s) ==
    LET cur == s.frontier[Len(s.frontier)]
        s1 == [s EXCEPT !.frontier = SubSeq(@, 1, Len(@) - 1), !.popped = Append(@, cur)]
    IN  IF cur = goal THEN [s1 EXCEPT !.status = "found"]
        ELSE ListVisit([s1 EXCEPT !.expanded = Append(@, cur)],
                       cur, get_neighbors(st, cur), 1)

RECURSIVE BfsLoop(_, _, _)
BfsLoop(st, goal, s) ==
    IF s.status # "running" THEN s
    ELSE IF s.frontier = << >> THEN [s EXCEPT !.status = "exhausted"]
    ELSE BfsLoop(st, goal, BfsIter(st, goal, s))

RECURSIVE DfsLoop(_, _, _)
DfsLoop(st, goal, s) ==
    IF s.status # "running" THEN s
    ELSE IF s.frontier = << >> THEN [s EXCEPT !.status = "exhausted"]
    ELSE DfsLoop(st, goal, DfsIter(st, goal, s))

\* Python's order on the heap entries (cost, (row, col)) of solve_ucs.
CellLess(a, b) == a[1] < b[1] \/ (a[1] = b[1] /\ a[2] < b[2])

\* UcsLess for heap entries pushed as (cell, cost).
UcsLess_cell_first(x, y) == CellLess(x[2], y[2]) \/ (x[2] = y[2] /\ x[1] < y[1])

UcsLess(x, y) == x[1] < y[1] \/ (x[1] = y[1] /\ CellLess(x[2], y[2]))

\* heapq.heappop on (cost, cell) entries: the index of a least entry.
UcsMinIndex(h) ==
    CHOOSE i \in 1 .. Len(h) :
        /\ \A j \in 1 .. Len(h) : ~UcsLess(h[j], h[i])
        /\ \A j \in 1 .. i - 1 : h[j] # h[i]

RemoveAt(h, i) == SubSeq(h, 1, i - 1) \o SubSeq(h, i + 1, Len(h))

\* UcsVisit without the test `if neighbor not in parent`.
RECURSIVE UcsVisit_overwrite(_, _, _, _, _)
UcsVisit_overwrite(s, cost, cur, ns, i) ==
    IF i > Len(ns) THEN s
    ELSE LET n == ns[i]
         IN  IF n \notin s.visited
             THEN UcsVisit_overwrite([s EXCEPT !.frontier = Append(@, <<cost + 1, n>>),
                                               !.parent = Put(@, n, cur)],
                                     cost, cur, ns, i + 1)
             ELSE UcsVisit_overwrite(s, cost, cur, ns, i + 1)

\* The `for neighbor` body of solve_ucs.
RECURSIVE UcsVisit(_, _, _, _, _)
UcsVisit(s, cost, cur, ns, i) ==
    IF i > Len(ns) THEN s
    ELSE LET n == ns[i]
         IN  IF n \notin s.visited
             THEN UcsVisit([s EXCEPT !.frontier = Append(@, <<cost + 1, n>>),
                                     !.parent = IF n \notin DOMAIN @
                                                THEN Put(@, n, cur) ELSE @],
                           cost, cur, ns, i + 1)
             ELSE UcsVisit(s, cost, cur, ns, i + 1)

\* State of solve_ucs before the while loop.
UcsInit(start) ==
    [frontier |-> << <<0, start>> >>, visited |-> {}, parent |-> EmptyDict,
     popped |-> << >>, expanded |-> << >>, status |-> "running"]

\* One iteration of `while heap:` of solve_ucs, popping the entry at index i.
UcsIterAt(st, goal, s, i) ==
    LET cost == s.frontier[i][1]
        cur == s.frontier[i][2]
    IN  IF cur = goal
        THEN [s EXCEPT !.frontier = RemoveAt(@, i), !.popped = Append(@, cur),
                       !.status = "found"]
        ELSE IF cur \in s.visited
        THEN [s EXCEPT !.frontier = RemoveAt(@, i), !.popped = Append(@, cur)]
        ELSE UcsVisit([s EXCEPT !.frontier = RemoveAt(@, i), !.popped = Append(@, cur),
                                !.visited = @ \cup {cur},
                                !.expanded = Append(@, cur)],
                      cost, cur, get_neighbors(st, cur), 1)

UcsIter(st, goal, s) == UcsIterAt(st, goal, s, UcsMinIndex(s.frontier))

RECURSIVE UcsLoop(_, _, _)
UcsLoop(st, goal, s) ==
    IF s.status # "running" THEN s
    ELSE IF s.frontier = << >> THEN [s EXCEPT !.status = "exhausted"]
    ELSE UcsLoop(st, goal, UcsIter(st, goal, s))

\* The path loop of draw_path_with_steps: `while current != self.start_pos`.
\* path is the list before path.reverse(); err is "KeyError" when
\* parent[current] does not exist.  fuel bounds the walk, which in the source
\* would not return on a cycle of parents (err "Hang").
RECURSIVE WalkParents(_, _, _, _, _)
WalkParents(parent, start, current, path, fuel) ==
    IF current = start THEN [err |-> "", path |-> Append(path, start)]
    ELSE IF current \notin DOMAIN parent THEN [err |-> "KeyError", path |-> path]
    ELSE IF fuel = 0 THEN [err |-> "Hang", path |-> path]
    ELSE WalkParents(parent, start, parent[current], Append(path, current), fuel - 1)

\* draw_path_with_steps: the path start..goal and `steps = len(path) - 1`,
\* shown in info_label.
draw_path_with_steps(parent, start, goal, algorithm_name) ==
    LET w == WalkParents(parent, start, goal, << >>, ROWS * COLS)
    IN  IF w.err # ""
        THEN [msg |-> w.err, algo |-> algorithm_name, steps |-> -1, path |-> << >>]
        ELSE [msg |-> "Path found", algo |-> algorithm_name,
              steps |-> Len(w.path) - 1, path |-> Reverse(w.path)]

\* info_label texts that carry no path.
Label(m, a) == [msg |-> m, algo |-> a, steps |-> -1, path |-> << >>]

\* ----------------------------------------------------------- Main (2).py
\* GridCells.type is one of "empty", "wall", "start", "goal", "visited", "path".

\* Grid.get_neighbors without the test of the cell type.
Grid_get_neighbors_walls(cells, cell) ==
    LET cand == [i \in 1 .. 4 |-> <<cell[1] + directions[i][1], cell[2] + directions[i][2]>>]
        ok(n) == /\ 0 <= n[1] /\ n[1] < GRID_ROWS
                 /\ 0 <= n[2] /\ n[2] < GRID_COLS
    IN  SelectSeq(cand, ok)

\* Grid.get_neighbors with the directions listed left, right, up, down.
Grid_get_neighbors_columns_first(cells, cell) ==
    LET moves == << <<0, -1>>, <<0, 1>>, <<-1, 0>>, <<1, 0>> >>
        cand == [i \in 1 .. 4 |-> <<cell[1] + moves[i][1], cell[2] + moves[i][2]>>]
        ok(n) == /\ 0 <= n[1] /\ n[1] < GRID_ROWS
                 /\ 0 <= n[2] /\ n[2] < GRID_COLS
                 /\ cells[n] # "wall"
    IN  SelectSeq(cand, ok)

\* Grid.get_neighbors: the in-bounds neighbours whose type is not 'wall'.
Grid_get_neighbors(cells, cell) ==
    LET cand == [i \in 1 .. 4 |-> <<cell[1] + directions[i][1], cell[2] + directions[i][2]>>]
        ok(n) == /\ 0 <= n[1] /\ n[1] < GRID_ROWS
                 /\ 0 <= n[2] /\ n[2] < GRID_COLS
                 /\ cells[n] # "wall"
    IN  SelectSeq(cand, ok)

\* heuristic overestimating the distance.
heuristic_weighted(a, b) == 3 * (Abs(a[1] - b[1]) + Abs(a[2] - b[2]))

\* PathfindingApp.heuristic
heuristic(a, b) == Abs(a[1] - b[1]) + Abs(a[2] - b[2])

\* PqLess with the cell as the second key.
PqLess_cell(x, y) == x[1] < y[1] \/ (x[1] = y[1] /\ CellLess(x[3], y[3]))

\* PqLess with the count kept in three bits.
PqLess_wrap(x, y) == x[1] < y[1] \/ (x[1] = y[1] /\ x[2] % 8 < y[2] % 8)

\* Python's order on the frontier entries (priority, next(pq_counter), cell):
\* the counter values are distinct, so the cell is never compared.
PqLess(x, y) == x[1] < y[1] \/ (x[1] = y[1] /\ x[2] < y[2])

\* heapq.heappop on (priority, count, cell) entries: the index of the least.
PqMinIndex(h) == CHOOSE i \in 1 .. Len(h) : \A j \in 1 .. Len(h) : ~PqLess(h[j], h[i])

\* State of a_star_search before the while loop; counter is the value the
\* next next(pq_counter) returns.  popped and expanded record, in order, the
\* cells the loop took from the frontier and those whose neighbours it examined.
AStarInit(start, counter) ==
    [frontier |-> << <<0, counter, start>> >>, counter |-> counter + 1,
     came_from |-> Put(EmptyDict, start, None),
     cost_so_far |-> Put(EmptyDict, start, 0),
     visited_order |-> << >>, popped |-> << >>, expanded |-> << >>,
     status |-> "running"]

\* State of greedy_best_first_search before the while loop.
GreedyInit(start, counter) ==
    [frontier |-> << <<0, counter, start>> >>, counter |-> counter + 1,
     came_from |-> Put(EmptyDict, start, None),
     visited_order |-> << >>, popped |-> << >>, expanded |-> << >>,
     status |-> "running"]

\* AStarVisit with `<=` for `<` in the test of the new cost.
RECURSIVE AStarVisit_le(_, _, _, _, _)
AStarVisit_le(s, goal, cur, ns, i) ==
    IF i > Len(ns) THEN s
    ELSE LET n == ns[i]
             new_cost == s.cost_so_far[cur] + 1
         IN  IF n \notin DOMAIN s.cost_so_far \/ new_cost <= s.cost_so_far[n]
             THEN AStarVisit_le([s EXCEPT
                                   !.cost_so_far = Put(@, n, new_cost),
                                   !.frontier = Append(@, <<new_cost + heuristic(goal, n),
                                                            s.counter, n>>),
                                   !.counter = @ + 1,
                                   !.came_from = Put(@, n, cur)],
                                goal, cur, ns, i + 1)
             ELSE AStarVisit_le(s, goal, cur, ns, i + 1)

\* The `for next_node` body of a_star_search.
RECURSIVE AStarVisit(_, _, _, _, _)
AStarVisit(s, goal, cur, ns, i) ==
    IF i > Len(ns) THEN s
    ELSE LET n == ns[i]
             new_cost == s.cost_so_far[cur] + 1
         IN  IF n \notin DOMAIN s.cost_so_far \/ new_cost < s.cost_so_far[n]
             THEN AStarVisit([s EXCEPT
                                !.cost_so_far = Put(@, n, new_cost),
                                !.frontier = Append(@, <<new_cost + heuristic(goal, n),
                                                         s.counter, n>>),
                                !.counter = @ + 1,
                                !.came_from = Put(@, n, cur)],
                             goal, cur, ns, i + 1)
             ELSE AStarVisit(s, goal, cur, ns, i + 1)

\* The `for next_node` body of greedy_best_first_search.
RECURSIVE GreedyVisit(_, _, _, _, _)
GreedyVisit(s, goal, cur, ns, i) ==
    IF i > Len(ns) THEN s
    ELSE LET n == ns[i]
         IN  IF n \notin DOMAIN s.came_from
             THEN GreedyVisit([s EXCEPT
                                 !.frontier = Append(@, <<heuristic(goal, n), s.counter, n>>),
                                 !.counter = @ + 1,
                                 !.came_from = Put(@, n, cur)],
                              goal, cur, ns, i + 1)
             ELSE GreedyVisit(s, goal, cur, ns, i + 1)

\* The part of one `while frontier:` iteration the two searches share: the pop
\* of the entry at index i, the goal test, the visited_order entry.
PqPopAt(s, start, goal, i) ==
    LET cur == s.frontier[i][3]
    IN  IF cur = goal
        THEN [s EXCEPT !.frontier = RemoveAt(@, i), !.popped = Append(@, cur),
                       !.status = "found"]
        ELSE [s EXCEPT !.frontier = RemoveAt(@, i), !.popped = Append(@, cur),
                       !.visited_order = IF cur # start /\ cur # goal
                                         THEN Append(@, cur) ELSE @,
                       !.expanded = Append(@, cur)]

PqPop(s, start, goal) == PqPopAt(s, start, goal, PqMinIndex(s.frontier))

\* The rest of an iteration of a_star_search; s1 is the state after the pop.
AStarExpand(cells, goal, s1) ==
    IF s1.status = "found" THEN s1
    ELSE AStarVisit(s1, goal, s1.popped[Len(s1.popped)],
                    Grid_get_neighbors(cells, s1.popped[Len(s1.popped)]), 1)

\* One iteration of `while frontier:` of a_star_search.
AStarIter(cells, start, goal, s) == AStarExpand(cells, goal, PqPop(s, start, goal))

\* The rest of an iteration of greedy_best_first_search.
GreedyExpand(cells, goal, s1) ==
    IF s1.status = "found" THEN s1
    ELSE GreedyVisit(s1, goal, s1.popped[Len(s1.popped)],
                     Grid_get_neighbors(cells, s1.popped[Len(s1.popped)]), 1)

\* One iteration of `while frontier:` of greedy_best_first_search.
GreedyIter(cells, start, goal, s) == GreedyExpand(cells, goal, PqPop(s, start, goal))

RECURSIVE AStarLoop(_, _, _, _)
AStarLoop(cells, start, goal, s) ==
    IF s.status # "running" THEN s
    ELSE IF s.frontier = << >> THEN [s EXCEPT !.status = "exhausted"]
    ELSE AStarLoop(cells, start, goal, AStarIter(cells, start, goal, s))

RECURSIVE GreedyLoop(_, _, _, _)
GreedyLoop(cells, start, goal, s) ==
    IF s.status # "running" THEN s
    ELSE IF s.frontier = << >> THEN [s EXCEPT !.status = "exhausted"]
    ELSE GreedyLoop(cells, start, goal, GreedyIter(cells, start, goal, s))

\* a_star_search(start, goal), entered with pq_counter = counter.
a_star_search(cells, start, goal, counter) ==
    AStarLoop(cells, start, goal, AStarInit(start, counter))

\* greedy_best_first_search(start, goal), entered with pq_counter = counter.
greedy_best_first_search(cells, start, goal, counter) ==
    GreedyLoop(cells, start, goal, GreedyInit(start, counter))

\* The loop of PathfindingApp.reconstruct_path; came_from.get(current) is
\* None for a missing key.  fuel bounds the walk, which in the source would
\* not return on a cycle of came_from links.
RECURSIVE ReconstructLoop(_, _, _, _, _)
ReconstructLoop(start, came_from, current, path, fuel) ==
    IF current = None \/ current = start \/ fuel = 0 THEN path
    ELSE ReconstructLoop(start, came_from,
                         IF current \in DOMAIN came_from THEN came_from[current] ELSE None,
                         <<current>> \o path, fuel - 1)

\* PathfindingApp.reconstruct_path(start, goal, came_from)
reconstruct_path(start, goal, came_from) ==
    ReconstructLoop(start, came_from, goal, << >>, GRID_ROWS * GRID_COLS)

\* --------------------------------------------------------------- Main.py
\* self.state[r][c] is one of 'empty', 'start', 'goal', 'wall', 'visited',
\* 'path'.  solve_bfs and reconstruct_path call QApplication.processEvents(),
\* which runs the handlers of the pending user events before it returns.  A
\* record m holds what a call of solve_bfs reads and writes: the fields
\* state, start_pos, goal_pos, info_label of the window, error (the Python
\* exception that ended the call, "" for none) and frame, the locals of the
\* call: q, visited, prev, cur = (row, col), and pc, which is "bfs_events" or
\* "path_events" while the call is inside processEvents() and "done" when it
\* has returned.

\* The `for dr, dc` loop of solve_bfs, from direction i on.
RECURSIVE MazeVisit(_, _, _)
MazeVisit(m, cur, i) ==
    IF i > 4 THEN m
    ELSE LET n == <<cur[1] + directions[i][1], cur[2] + directions[i][2]>>
         IN  IF /\ 0 <= n[1] /\ n[1] < MAZE_ROWS
                /\ 0 <= n[2] /\ n[2] < MAZE_COLS
                /\ n \notin m.frame.visited
                /\ m.state[n] # "wall"
             THEN MazeVisit([m EXCEPT !.frame.q = Append(@, n),
                                      !.frame.visited = @ \cup {n},
                                      !.frame.prev = Put(@, n, cur)],
                            cur, i + 1)
             ELSE MazeVisit(m, cur, i + 1)

RECURSIVE MazeBfsLoop(_)
RECURSIVE MazeAfterPop(_)
RECURSIVE MazeReconLoop(_)

\* solve_bfs from `while q:` up to the next processEvents() or the return.
MazeBfsLoop(m) ==
    IF m.frame.q = << >>
    THEN [m EXCEPT !.info_label = "No path found!", !.frame.pc = "done"]
    ELSE IF Head(m.frame.q) # m.start_pos /\ Head(m.frame.q) # m.goal_pos
    THEN [m EXCEPT !.frame.cur = Head(m.frame.q),
                   !.frame.q = Tail(@),
                   !.state[Head(m.frame.q)] = "visited",
                   !.frame.pc = "bfs_events"]
    ELSE MazeAfterPop([m EXCEPT !.frame.cur = Head(m.frame.q), !.frame.q = Tail(@)])

\* solve_bfs from `if (row, col) == self.goal_pos:` on; found leads into
\* reconstruct_path, which starts at self.goal_pos.
MazeAfterPop(m) ==
    IF m.frame.cur = m.goal_pos
    THEN MazeReconLoop(m)
    ELSE MazeBfsLoop(MazeVisit(m, m.frame.cur, 1))

\* reconstruct_path from `while (row, col) != self.start_pos:` up to the next
\* processEvents() or the return; `row, col = prev[row][col]` raises
\* TypeError when the entry is None.
MazeReconLoop(m) ==
    IF m.frame.cur = m.start_pos
    THEN [m EXCEPT !.info_label = "Path found!", !.frame.pc = "done"]
    ELSE IF m.frame.cur \notin DOMAIN m.frame.prev
    THEN [m EXCEPT !.error = "TypeError", !.frame.pc = "done"]
    ELSE IF m.frame.prev[m.frame.cur] # m.start_pos
    THEN [m EXCEPT !.frame.cur = m.frame.prev[m.frame.cur],
                   !.state[m.frame.prev[m.frame.cur]] = "path",
                   !.frame.pc = "path_events"]
    ELSE MazeReconLoop([m EXCEPT !.frame.cur = m.frame.prev[m.frame.cur]])

\* The locals of solve_bfs before `while q:`.
MazeFrame(start) ==
    [pc |-> "bfs", q |-> <<start>>, visited |-> {start}, prev |-> EmptyDict,
     cur |-> start]

\* ------------------------------------------------------------ variables
VARIABLES
    app,          \* the program that is running: "AI3", "PF" or "Maze"
    pc,           \* the search loop of AI3.py or Main (2).py that is between two
                  \* of its iterations, "idle" when none is
    \* AI3.py MazeSolver
    state,        \* self.state
    start_pos,    \* self.start_pos
    goal_pos,     \* self.goal_pos
    click_stage,  \* self.click_stage
    wall_count,   \* self.wall_count
    info_label,   \* self.info_label text, with the path drawn on the buttons
    search,       \* locals of the search call of the handler that has just
                  \* returned, NoSearch when that handler ran no search
    \* Main (2).py PathfindingApp
    cells,             \* type of every cell of self.grid.cells
    grid_start,        \* self.grid.start
    grid_goal,         \* self.grid.goal
    steps,             \* self.steps
    path,              \* self.path
    step_counter,      \* self.step_counter
    algorithm_running, \* self.algorithm_running
    timer_active,      \* self.timer is started
    pq_counter,        \* the value the next next(pq_counter) returns
    status_msg,        \* the text the last handler left in the status bar,
                       \* "" when it showed none
    \* Main.py MazeSolver
    maze_state,        \* self.state
    maze_start_pos,    \* self.start_pos
    maze_goal_pos,     \* self.goal_pos
    setting_mode,      \* self.setting_mode
    maze_info_label,   \* self.info_label text
    call_stack,        \* locals of the active solve_bfs calls, innermost last
    maze_error,        \* the exception that ended the program, "" for none
    \* assignement2/main.py SummarizerApp, summarizer_app_assignment/main.py
    \* ArticleSummarizerApp
    input_text,           \* text of self.input_text (self.original_text)
    output_text,          \* text of self.output_text (self.summary_text)
    summarize_button,     \* self.summarize_button (self.summarize_btn) is enabled
    summarizer_pipeline,  \* SummarizerWorker._summarizer_pipeline
    summarization_thread, \* the QThread of the last run: "none", "running",
                          \* "quit" (quit() called, still running) or "finished"
    worker,               \* run() of the last worker: "none", "started", "returned"
    event_queue,          \* slot calls posted to the window's thread, oldest first
    runs,                 \* number of worker threads started
    emitted,              \* the signals the workers emitted, [run, signal]
    handled,              \* the calls of the window's result and error slots, [run, slot]
    history,              \* rows [original_text, summary_text] of the table
    message_box,          \* title of the last QMessageBox, "" for none
    crashed,              \* the process was aborted
    window,               \* the main window: "open" or "closed" (the process exits)
    worker_text,          \* the text the last worker was constructed with
    progress_bar,         \* self.progress_bar is visible
    save_btn,             \* self.save_btn is enabled
    \* Main (3).py SudokuSolver
    sudoku_cells,   \* the number in every self.cells[row][col]: 0 for the empty
                    \* text, -1 for a text get_board rejects
    hint_count,     \* self.hint_count
    solution,       \* self.solution, NoBoard for None
    sudoku_msg,     \* title of the QMessageBox the last handler showed, "" for none
    hints,          \* the cells provide_hint has filled since the board was
                    \* cleared last, [cell, num], in order
    solve_call      \* the board the last handler passed to solve_board and what
                    \* the call returned, NoCall when it called none

ai3vars == <<state, start_pos, goal_pos, click_stage, wall_count, info_label>>

pfvars == <<cells, grid_start, grid_goal, steps, path, step_counter,
            algorithm_running, timer_active, pq_counter, status_msg>>

mazevars == <<maze_state, maze_start_pos, maze_goal_pos, setting_mode,
              maze_info_label, call_stack, maze_error>>

sumvars == <<input_text, output_text, summarize_button, summarizer_pipeline,
             summarization_thread, worker, event_queue, runs, emitted, handled,
             history, message_box, crashed, window, worker_text, progress_bar,
             save_btn>>

sudokuvars == <<sudoku_cells, hint_count, solution, sudoku_msg, hints, solve_call>>

vars == <<app, pc, search, ai3vars, pfvars, mazevars, sumvars, sudokuvars>>

NoSearch == [frontier |-> << >>, visited |-> {}, parent |-> EmptyDict,
             popped |-> << >>, expanded |-> << >>, status |-> "none"]

\* MazeSolver.__init__ of AI3.py
AI3Init ==
    /\ state = [c \in Cells |-> 0]
    /\ start_pos = None
    /\ goal_pos = None
    /\ click_stage = 0
    /\ wall_count = 0
    /\ info_label = Label("Click to set Start, Goal, and Walls", "")

\* MazeSolver.cell_clicked(row, col) of AI3.py
AI3_cell_clicked(cell) ==
    /\ app = "AI3"
    /\ IF click_stage = 0
       THEN /\ start_pos' = cell
            /\ state' = [state EXCEPT ![cell] = 2]
            /\ info_label' = Label("Click to set Goal position.", "")
            /\ click_stage' = 1
            /\ UNCHANGED <<goal_pos, wall_count>>
       ELSE IF click_stage = 1 /\ cell # start_pos
       THEN /\ goal_pos' = cell
            /\ state' = [state EXCEPT ![cell] = 3]
            /\ info_label' = Label("Click to place walls.", "")
            /\ click_stage' = 2
            /\ UNCHANGED <<start_pos, wall_count>>
       ELSE IF click_stage >= 2 /\ cell # start_pos /\ cell # goal_pos /\ state[cell] # 1
       THEN /\ state' = [state EXCEPT ![cell] = 1]
            /\ wall_count' = wall_count + 1
            /\ info_label' = [Label("Walls placed", "") EXCEPT !.steps = wall_count + 1]
            /\ UNCHANGED <<start_pos, goal_pos, click_stage>>
       ELSE UNCHANGED <<state, start_pos, goal_pos, click_stage, wall_count, info_label>>
    /\ search' = NoSearch
    /\ UNCHANGED <<app, sumvars, sudokuvars, pc, pfvars, mazevars>>

\* The common shape of solve_bfs, solve_dfs and solve_ucs of AI3.py; final is
\* the state in which the while loop of the search ends.
AI3Solve(algorithm_name, final) ==
    /\ app = "AI3"
    /\ IF start_pos = None \/ goal_pos = None
       THEN /\ info_label' = Label("Please set both Start and Goal positions.", "")
            /\ search' = NoSearch
       ELSE /\ search' = final
            /\ info_label' = IF final.status = "found"
                             THEN draw_path_with_steps(final.parent, start_pos, goal_pos,
                                                       algorithm_name)
                             ELSE Label("No path found", algorithm_name)
    /\ UNCHANGED <<app, sumvars, sudokuvars, pc, state, start_pos, goal_pos, click_stage, wall_count, pfvars,
                   mazevars>>

\* MazeSolver.solve_bfs of AI3.py
solve_bfs == AI3Solve("BFS", BfsLoop(state, goal_pos, ListSearchInit(start_pos)))

\* MazeSolver.solve_dfs of AI3.py
solve_dfs == AI3Solve("DFS", DfsLoop(state, goal_pos, ListSearchInit(start_pos)))

\* MazeSolver.solve_ucs of AI3.py
solve_ucs == AI3Solve("UCS", UcsLoop(state, goal_pos, UcsInit(start_pos)))

\* MazeSolver.clear_grid of AI3.py
AI3_clear_grid ==
    /\ app = "AI3"
    /\ state' = [c \in Cells |-> 0]
    /\ start_pos' = None
    /\ goal_pos' = None
    /\ click_stage' = 0
    /\ wall_count' = 0
    /\ info_label' = Label("Click to set Start, Goal, and Walls", "")
    /\ search' = NoSearch
    /\ UNCHANGED <<app, sumvars, sudokuvars, pc, pfvars, mazevars>>

\* Grid.__init__ and PathfindingApp.__init__ of Main (2).py
PFInit ==
    /\ cells = [c \in GridCells |-> "empty"]
    /\ grid_start = None
    /\ grid_goal = None
    /\ steps = << >>
    /\ path = << >>
    /\ step_counter = 0
    /\ algorithm_running = FALSE
    /\ timer_active = FALSE
    /\ pq_counter = 0
    /\ status_msg = ""

\* The cell types after the loop of clear_visualization_steps.
ClearedCells(cs) ==
    [c \in GridCells |-> IF cs[c] \in {"visited", "path"} THEN "empty" ELSE cs[c]]

\* PathfindingApp.handle_view_mouse_press for a press of `button` inside cell;
\* it starts with clear_visualization_steps() when algorithm_running.
handle_view_mouse_press(cell, button) ==
    /\ app = "PF"
    /\ LET cs == IF algorithm_running THEN ClearedCells(cells) ELSE cells
       IN  IF button = "LeftButton"
           THEN IF grid_start = None
                THEN /\ cells' = [cs EXCEPT ![cell] = "start"]
                     /\ grid_start' = cell
                     /\ UNCHANGED grid_goal
                ELSE IF grid_goal = None /\ cell # grid_start
                THEN /\ cells' = [cs EXCEPT ![cell] = "goal"]
                     /\ grid_goal' = cell
                     /\ UNCHANGED grid_start
                ELSE IF cell # grid_start /\ cell # grid_goal
                THEN /\ cells' = [cs EXCEPT ![cell] = IF cs[cell] = "wall"
                                                      THEN "empty" ELSE "wall"]
                     /\ UNCHANGED <<grid_start, grid_goal>>
                ELSE /\ cells' = cs
                     /\ UNCHANGED <<grid_start, grid_goal>>
           ELSE /\ grid_start' = IF cell = grid_start THEN None ELSE grid_start
                /\ grid_goal' = IF cell # grid_start /\ cell = grid_goal
                                THEN None ELSE grid_goal
                /\ cells' = [cs EXCEPT ![cell] = "empty"]
    /\ IF algorithm_running
       THEN /\ timer_active' = FALSE
            /\ step_counter' = 0
            /\ path' = << >>
            /\ steps' = << >>
            /\ algorithm_running' = FALSE
       ELSE UNCHANGED <<timer_active, step_counter, path, steps, algorithm_running>>
    /\ status_msg' = ""
    /\ search' = NoSearch
    /\ UNCHANGED <<app, sumvars, sudokuvars, pc, pq_counter, ai3vars, mazevars>>

\* list.remove(x): the list without its first x.
RECURSIVE ListRemove(_, _)
ListRemove(l, x) ==
    IF l = << >> THEN l
    ELSE IF Head(l) = x THEN Tail(l)
    ELSE <<Head(l)>> \o ListRemove(Tail(l), x)

\* run_algorithm from `if self.grid.goal in came_from` on: cs are the cell
\* types clear_visualization_steps left, r the state in which the search ended.
RunFinish(cs, r) ==
    LET found == grid_goal \in DOMAIN r.came_from
        new_path == IF found
                    THEN reconstruct_path(grid_start, grid_goal, r.came_from)
                    ELSE << >>
        new_steps == IF found THEN ListRemove(r.visited_order, grid_goal)
                     ELSE r.visited_order
        visualize == new_steps # << >> \/ new_path # << >>
    IN  /\ cells' = cs
        /\ search' = r
        /\ pq_counter' = r.counter
        /\ steps' = new_steps
        /\ path' = new_path
        /\ step_counter' = 0
        /\ timer_active' = visualize
        /\ algorithm_running' = visualize
        /\ status_msg' = IF ~visualize THEN "No steps to visualize"
                         ELSE IF ~found THEN "No path found!" ELSE ""

\* The search run_algorithm calls for the item selected in algo_combo.
RunSearch(algorithm, cs) ==
    IF algorithm = "A* Algorithm"
    THEN a_star_search(cs, grid_start, grid_goal, pq_counter)
    ELSE greedy_best_first_search(cs, grid_start, grid_goal, pq_counter)

\* run_algorithm with clear_visualization_steps() moved in front of the test
\* of the end points.
run_algorithm_clear_first(algorithm) ==
    /\ app = "PF"
    /\ IF grid_start = None \/ grid_goal = None
       THEN /\ status_msg' = "Please set start and goal nodes!"
            /\ search' = NoSearch
            /\ cells' = ClearedCells(cells)
            /\ steps' = << >>
            /\ path' = << >>
            /\ step_counter' = 0
            /\ algorithm_running' = FALSE
            /\ timer_active' = FALSE
            /\ UNCHANGED pq_counter
       ELSE /\ pq_counter < MaxPqCounter
            /\ RunFinish(ClearedCells(cells), RunSearch(algorithm, ClearedCells(cells)))
    /\ UNCHANGED <<app, sumvars, sudokuvars, pc, grid_start, grid_goal, ai3vars, mazevars>>

\* PathfindingApp.run_algorithm with `algorithm` selected in algo_combo.
run_algorithm(algorithm) ==
    /\ app = "PF"
    /\ IF grid_start = None \/ grid_goal = None
       THEN /\ status_msg' = "Please set start and goal nodes!"
            /\ search' = NoSearch
            /\ UNCHANGED <<cells, steps, path, step_counter, algorithm_running,
                           timer_active, pq_counter>>
       ELSE /\ pq_counter < MaxPqCounter
            /\ RunFinish(ClearedCells(cells), RunSearch(algorithm, ClearedCells(cells)))
    /\ UNCHANGED <<app, sumvars, sudokuvars, pc, grid_start, grid_goal, ai3vars, mazevars>>

\* PathfindingApp.step_visualization, the slot of self.timer.timeout
step_visualization ==
    /\ app = "PF"
    /\ timer_active
    /\ IF step_counter < Len(steps)
       THEN LET current_cell == steps[step_counter + 1]
            IN  /\ cells' = IF cells[current_cell] \notin {"start", "goal"}
                            THEN [cells EXCEPT ![current_cell] = "visited"] ELSE cells
                /\ step_counter' = step_counter + 1
                /\ status_msg' = ""
                /\ UNCHANGED <<path, timer_active, algorithm_running>>
       ELSE IF Len(path) > 0
       THEN LET current_path_cell == Head(path)
            IN  /\ path' = Tail(path)
                /\ cells' = IF cells[current_path_cell] \notin {"start", "goal"}
                            THEN [cells EXCEPT ![current_path_cell] = "path"] ELSE cells
                /\ status_msg' = ""
                /\ UNCHANGED <<step_counter, timer_active, algorithm_running>>
       ELSE /\ timer_active' = FALSE
            /\ status_msg' = "Pathfinding visualization complete!"
            /\ algorithm_running' = FALSE
            /\ UNCHANGED <<cells, path, step_counter>>
    /\ search' = NoSearch
    /\ UNCHANGED <<app, sumvars, sudokuvars, pc, grid_start, grid_goal, steps, pq_counter, ai3vars, mazevars>>

\* Grid.reset, the slot of the Reset Grid button
Grid_reset ==
    /\ app = "PF"
    /\ cells' = [c \in GridCells |-> "empty"]
    /\ grid_start' = None
    /\ grid_goal' = None
    /\ status_msg' = ""
    /\ search' = NoSearch
    /\ UNCHANGED <<app, sumvars, sudokuvars, pc, steps, path, step_counter, algorithm_running, timer_active,
                   pq_counter, ai3vars, mazevars>>

\* Grid.clear_all, the slot of the Clear All button
Grid_clear_all ==
    /\ app = "PF"
    /\ cells' = [c \in GridCells |-> "empty"]
    /\ grid_start' = None
    /\ grid_goal' = None
    /\ status_msg' = ""
    /\ search' = NoSearch
    /\ UNCHANGED <<app, sumvars, sudokuvars, pc, steps, path, step_counter, algorithm_running, timer_active,
                   pq_counter, ai3vars, mazevars>>

\* MazeSolver.__init__ of Main.py
MazeInit ==
    /\ maze_state = [c \in MazeCells |-> "empty"]
    /\ maze_start_pos = None
    /\ maze_goal_pos = None
    /\ setting_mode = "start"
    /\ maze_info_label = "Click to set Start, Goal, and Walls"
    /\ call_stack = << >>
    /\ maze_error = ""

\* The handlers of Main.py run from the event loop: from app.exec() when no
\* solve_bfs is active, from processEvents() of the innermost call otherwise.
MazeDispatch == app = "Maze" /\ maze_error = ""

\* MazeSolver.cell_clicked(row, col) of Main.py; update_cell stores the value
\* in self.state.
Maze_cell_clicked(cell) ==
    /\ MazeDispatch
    /\ IF setting_mode = "start"
       THEN /\ maze_state' = [(IF maze_start_pos # None
                                THEN [maze_state EXCEPT ![maze_start_pos] = "empty"]
                                ELSE maze_state) EXCEPT ![cell] = "start"]
            /\ maze_start_pos' = cell
            /\ setting_mode' = "goal"
            /\ maze_info_label' = "Click to set Goal position"
            /\ UNCHANGED maze_goal_pos
       ELSE IF setting_mode = "goal"
       THEN /\ maze_state' = [(IF maze_goal_pos # None
                                THEN [maze_state EXCEPT ![maze_goal_pos] = "empty"]
                                ELSE maze_state) EXCEPT ![cell] = "goal"]
            /\ maze_goal_pos' = cell
            /\ setting_mode' = "wall"
            /\ maze_info_label' = "Click to add/remove walls"
            /\ UNCHANGED maze_start_pos
       ELSE /\ maze_state' = [maze_state EXCEPT ![cell] = IF maze_state[cell] = "wall"
                                                         THEN "empty" ELSE "wall"]
            /\ UNCHANGED <<maze_start_pos, maze_goal_pos, setting_mode, maze_info_label>>
    /\ UNCHANGED <<app, sumvars, sudokuvars, pc, search, ai3vars, pfvars, call_stack, maze_error>>

\* MazeSolver.clear_grid of Main.py
Maze_clear_grid ==
    /\ MazeDispatch
    /\ maze_state' = [c \in MazeCells |-> "empty"]
    /\ maze_start_pos' = None
    /\ maze_goal_pos' = None
    /\ setting_mode' = "start"
    /\ maze_info_label' = "Click to set Start, Goal, and Walls"
    /\ UNCHANGED <<app, sumvars, sudokuvars, pc, search, ai3vars, pfvars, call_stack, maze_error>>

\* The window and the call stack after the innermost solve_bfs call, whose
\* locals replace the entries of call_stack from index depth on, has run up
\* to m: the call stays on the stack while it is inside processEvents().
MazeStore(m, depth) ==
    /\ maze_state' = m.state
    /\ maze_info_label' = m.info_label
    /\ maze_error' = m.error
    /\ call_stack' = IF m.frame.pc = "done" THEN SubSeq(call_stack, 1, depth - 1)
                     ELSE Append(SubSeq(call_stack, 1, depth - 1), m.frame)
    /\ UNCHANGED <<maze_start_pos, maze_goal_pos, setting_mode>>

\* A call of solve_bfs with the locals frame, as the record the loops work on.
MazeCall(frame) ==
    [state |-> maze_state, start_pos |-> maze_start_pos, goal_pos |-> maze_goal_pos,
     info_label |-> maze_info_label, error |-> "", frame |-> frame]

\* MazeSolver.solve_bfs of Main.py, up to its first processEvents() or its
\* return.
Maze_solve_bfs ==
    /\ MazeDispatch
    /\ IF maze_start_pos = None \/ maze_goal_pos = None
       THEN /\ maze_info_label' = "Start and Goal must be set!"
            /\ UNCHANGED <<maze_state, maze_start_pos, maze_goal_pos, setting_mode,
                           call_stack, maze_error>>
       ELSE /\ Len(call_stack) < MaxNesting
            /\ MazeStore(MazeBfsLoop(MazeCall(MazeFrame(maze_start_pos))),
                         Len(call_stack) + 1)
    /\ UNCHANGED <<app, sumvars, sudokuvars, pc, search, ai3vars, pfvars>>

\* processEvents() returns to the innermost solve_bfs call, which runs up to
\* its next processEvents() or its return.
Maze_processEvents_return ==
    /\ MazeDispatch
    /\ call_stack # << >>
    /\ LET frame == call_stack[Len(call_stack)]
       IN  IF frame.pc = "bfs_events"
           THEN MazeStore(MazeAfterPop(MazeCall(frame)), Len(call_stack))
           ELSE MazeStore(MazeReconLoop(MazeCall(frame)), Len(call_stack))
    /\ UNCHANGED <<app, sumvars, sudokuvars, pc, search, ai3vars, pfvars>>

\* solve_dfs, solve_ucs, solve_dls and solve_iddfs of Main.py
Maze_solve_stub(name) ==
    /\ MazeDispatch
    /\ maze_info_label' = name
    /\ UNCHANGED <<app, sumvars, sudokuvars, pc, search, ai3vars, pfvars, maze_state, maze_start_pos,
                   maze_goal_pos, setting_mode, call_stack, maze_error>>

MazeStubs == {"DFS not yet implemented."}

Algorithms == {"A* Algorithm", "Greedy Best-First Search"}

\* ------------------------------------------------- article summarizers
\* The windows of summarizer_app_assignment/main.py and Summarizer_App/main.py,
\* both ArticleSummarizerApp with the same SummarizationWorker.
ArticleApps == {"ArticleSummarizer", "Summarizer_App"}

SummarizerApps == {"Summarizer"} \cup ArticleApps

\* SummarizerApp.__init__ and ArticleSummarizerApp.__init__, with an empty
\* history table.
SumInit ==
    /\ input_text = ""
    /\ output_text = ""
    /\ summarize_button = TRUE
    /\ summarizer_pipeline = None
    /\ summarization_thread = "none"
    /\ worker = "none"
    /\ worker_text = ""
    /\ event_queue = << >>
    /\ runs = 0
    /\ emitted = << >>
    /\ handled = << >>
    /\ history = << >>
    /\ message_box = ""
    /\ crashed = FALSE
    /\ window = "open"
    /\ progress_bar = FALSE
    /\ save_btn = FALSE

\* What the text boxes hold: nothing, fewer than 100 characters, an article.
Texts == {"", "short", "article"}

\* The summary the library computes for a text.
Summary(text) == IF text = "short" THEN "summary of short" ELSE "summary of article"

\* What pipeline() does in SummarizerWorker.run: building the pipeline raises
\* ("load_error"), the call raises ("raise"), it returns a list with the
\* summary ("summary"), a list whose first item has no 'summary_text'
\* ("malformed"), or an empty list or no list ("empty").
PipelineOutcomes == {"load_error", "raise", "summary", "malformed", "empty"}

\* What TextSummarizer.summarize does in SummarizationWorker.run.
SummarizeOutcomes == {"raise", "summary"}

\* SummarizerWorker_signals with the error emitted after the if statement
\* rather than in its else branch.
SummarizerWorker_signals_no_else(outcome) ==
    IF outcome \in {"load_error", "raise"} THEN <<"error">>
    ELSE IF outcome = "malformed" THEN <<"error">>
    ELSE IF outcome = "summary" THEN <<"finished", "error">>
    ELSE <<"error">>

\* The signals SummarizerWorker.run emits, in order: an exception in the try
\* block, that of summary[0]['summary_text'] included, leads to the except
\* clause before finished is emitted.
SummarizerWorker_signals(outcome) ==
    IF outcome \in {"load_error", "raise"} THEN <<"error">>
    ELSE IF outcome = "malformed" THEN <<"error">>
    ELSE IF outcome = "summary" THEN <<"finished">>
    ELSE <<"error">>

\* The signals SummarizationWorker.run emits.
SummarizationWorker_signals(outcome) ==
    IF outcome = "raise" THEN <<"error">> ELSE <<"finished">>

\* The slot calls the emission of `signal` by the worker of run r posts to
\* the window's thread, in the order of the connect() calls; arg is the
\* summary a finished signal carries.  quit is a slot of the QThread object,
\* which lives in the window's thread; deleteLater of the worker is called
\* directly.
RECURSIVE Posted(_, _, _, _, _)
Posted(a, signals, i, r, arg) ==
    IF i > Len(signals) THEN << >>
    ELSE (IF signals[i] = "error"
          THEN << [slot |-> IF a = "Summarizer" THEN "on_summary_error"
                            ELSE "on_summarization_error", run |-> r, arg |-> ""] >>
          ELSE IF a = "Summarizer"
          THEN << [slot |-> "on_summary_complete", run |-> r, arg |-> arg],
                  [slot |-> "quit", run |-> r, arg |-> ""] >>
          ELSE << [slot |-> "on_summarization_finished", run |-> r, arg |-> arg] >>)
         \o Posted(a, signals, i + 1, r, arg)

\* [run, signal] for each of the signals.
Signals(signals, r) == [i \in 1 .. Len(signals) |-> [run |-> r, signal |-> signals[i]]]

\* The window is shown and its process is alive.
SumAlive == app \in SummarizerApps /\ ~crashed /\ window = "open"

\* The call the window's event loop delivers next is that of `slot`.
SumNext(slot) == event_queue # << >> /\ Head(event_queue).slot = slot

\* The user types into, or empties, the input box.
Sum_edit_text(text) ==
    /\ SumAlive
    /\ input_text # text
    /\ input_text' = text
    /\ UNCHANGED <<app, pc, search, ai3vars, pfvars, mazevars, sudokuvars, output_text,
                   summarize_button, summarizer_pipeline, summarization_thread, worker,
                   worker_text, event_queue, runs, emitted, handled, history,
                   message_box, crashed, window, progress_bar, save_btn>>

\* SummarizerApp.run_summarization, the slot of summarize_button.clicked; the
\* click is handled after the calls posted before it.  destroyed tells
\* whether assigning self.summarization_thread destroys the QThread of the
\* run before while it is still running, which aborts the process.
run_summarization(destroyed) ==
    /\ SumAlive /\ app = "Summarizer"
    /\ summarize_button /\ event_queue = << >>
    /\ IF input_text = ""
       THEN /\ message_box' = "Input Error"
            /\ ~destroyed
            /\ UNCHANGED <<summarize_button, summarization_thread, worker, worker_text,
                           runs, crashed>>
       ELSE /\ runs < MaxRuns
            /\ destroyed => summarization_thread \in {"running", "quit"}
            /\ summarize_button' = FALSE
            /\ message_box' = ""
            /\ IF destroyed
               THEN /\ crashed' = TRUE
                    /\ UNCHANGED <<summarization_thread, worker, worker_text, runs>>
               ELSE /\ summarization_thread' = "running"
                    /\ worker' = "started"
                    /\ worker_text' = input_text
                    /\ runs' = runs + 1
                    /\ UNCHANGED crashed
    /\ UNCHANGED <<app, pc, search, ai3vars, pfvars, mazevars, sudokuvars, input_text, output_text,
                   summarizer_pipeline, event_queue, emitted, handled, history, window,
                   progress_bar, save_btn>>

\* SummarizerWorker.run, called in the worker's thread by the thread's
\* started signal.
SummarizerWorker_run(outcome) ==
    /\ SumAlive /\ app = "Summarizer"
    /\ worker = "started"
    /\ outcome = "load_error" => summarizer_pipeline = None
    /\ summarizer_pipeline' = IF outcome = "load_error" THEN None ELSE "pipeline"
    /\ emitted' = emitted \o Signals(SummarizerWorker_signals(outcome), runs)
    /\ event_queue' = event_queue \o Posted(app, SummarizerWorker_signals(outcome), 1, runs,
                                            Summary(worker_text))
    /\ worker' = "returned"
    /\ UNCHANGED <<app, pc, search, ai3vars, pfvars, mazevars, sudokuvars, input_text, output_text,
                   summarize_button, summarization_thread, worker_text, runs, handled,
                   history, message_box, crashed, window, progress_bar, save_btn>>

\* SummarizerApp.on_summary_complete, with save_to_history and load_history
SummarizerApp_on_summary_complete ==
    /\ SumAlive /\ app = "Summarizer"
    /\ SumNext("on_summary_complete")
    /\ event_queue' = Tail(event_queue)
    /\ handled' = Append(handled, [slot |-> Head(event_queue).slot,
                                   run |-> Head(event_queue).run])
    /\ output_text' = Head(event_queue).arg
    /\ history' = Append(history, [original_text |-> input_text,
                                   summary_text |-> Head(event_queue).arg])
    /\ summarize_button' = TRUE
    /\ message_box' = "Success"
    /\ UNCHANGED <<app, pc, search, ai3vars, pfvars, mazevars, sudokuvars, input_text,
                   summarizer_pipeline, summarization_thread, worker, worker_text, runs,
                   emitted, crashed, window, progress_bar, save_btn>>

\* SummarizerApp.on_summary_error
SummarizerApp_on_summary_error ==
    /\ SumAlive /\ app = "Summarizer"
    /\ SumNext("on_summary_error")
    /\ event_queue' = Tail(event_queue)
    /\ handled' = Append(handled, [slot |-> Head(event_queue).slot,
                                   run |-> Head(event_queue).run])
    /\ message_box' = "Error"
    /\ summarize_button' = TRUE
    /\ UNCHANGED <<app, pc, search, ai3vars, pfvars, mazevars, sudokuvars, input_text, output_text,
                   summarizer_pipeline, summarization_thread, worker, worker_text, runs,
                   emitted, history, crashed, window, progress_bar, save_btn>>

\* SummarizerApp.display_history_item for the i-th row of the table
display_history_item(i) ==
    /\ SumAlive /\ app = "Summarizer"
    /\ i \in 1 .. Len(history)
    /\ input_text' = history[i].original_text
    /\ output_text' = history[i].summary_text
    /\ UNCHANGED <<app, pc, search, ai3vars, pfvars, mazevars, sudokuvars, summarize_button,
                   summarizer_pipeline, summarization_thread, worker, worker_text,
                   event_queue, runs, emitted, handled, history, message_box, crashed,
                   window, progress_bar, save_btn>>

\* QThread.quit, connected to worker.finished in run_summarization
QThread_quit ==
    /\ SumAlive /\ app = "Summarizer"
    /\ SumNext("quit")
    /\ event_queue' = Tail(event_queue)
    /\ summarization_thread' = IF Head(event_queue).run = runs THEN "quit"
                               ELSE summarization_thread
    /\ UNCHANGED <<app, pc, search, ai3vars, pfvars, mazevars, sudokuvars, input_text, output_text,
                   summarize_button, summarizer_pipeline, worker, worker_text, runs,
                   emitted, handled, history, message_box, crashed, window, progress_bar,
                   save_btn>>

\* The thread leaves its event loop after quit(); its finished signal is
\* connected to deleteLater.
QThread_finished ==
    /\ SumAlive /\ app = "Summarizer"
    /\ summarization_thread = "quit"
    /\ summarization_thread' = "finished"
    /\ UNCHANGED <<app, pc, search, ai3vars, pfvars, mazevars, sudokuvars, input_text, output_text,
                   summarize_button, summarizer_pipeline, worker, worker_text, event_queue,
                   runs, emitted, handled, history, message_box, crashed, window,
                   progress_bar, save_btn>>

\* SummarizerApp.closeEvent.  With the thread running, quit() and wait()
\* return when run() of the worker, which is called by the started signal
\* before the thread enters its event loop, has returned, with `outcome`; the
\* calls it posts are not delivered any more.  deleted tells whether
\* deleteLater has destroyed the finished QThread, whose isRunning() then
\* raises RuntimeError.
SummarizerApp_closeEvent(outcome, deleted) ==
    /\ SumAlive /\ app = "Summarizer"
    /\ deleted => summarization_thread = "finished"
    /\ outcome = "load_error" => summarizer_pipeline = None
    /\ IF deleted
       THEN /\ crashed' = TRUE
            /\ UNCHANGED <<window, summarization_thread, worker, emitted, event_queue,
                           summarizer_pipeline>>
       ELSE /\ window' = "closed"
            /\ UNCHANGED crashed
            /\ IF summarization_thread \in {"running", "quit"}
               THEN /\ summarization_thread' = "finished"
                    /\ IF worker = "started"
                       THEN /\ worker' = "returned"
                            /\ summarizer_pipeline' = IF outcome = "load_error" THEN None
                                                      ELSE "pipeline"
                            /\ emitted' = emitted
                                             \o Signals(SummarizerWorker_signals(outcome), runs)
                            /\ event_queue' = event_queue
                                  \o Posted(app, SummarizerWorker_signals(outcome), 1, runs,
                                            Summary(worker_text))
                       ELSE /\ outcome = "raise"
                            /\ UNCHANGED <<worker, summarizer_pipeline, emitted, event_queue>>
               ELSE /\ outcome = "raise"
                    /\ UNCHANGED <<summarization_thread, worker, summarizer_pipeline,
                                   emitted, event_queue>>
    /\ UNCHANGED <<app, pc, search, ai3vars, pfvars, mazevars, sudokuvars, input_text, output_text,
                   summarize_button, worker_text, runs, handled, history, message_box,
                   progress_bar, save_btn>>

\* ArticleSummarizerApp.summarize_article, the slot of summarize_btn.clicked
summarize_article ==
    /\ SumAlive /\ app \in ArticleApps
    /\ summarize_button
    /\ IF input_text \in {"", "short"}
       THEN /\ message_box' = "Warning"
            /\ UNCHANGED <<summarize_button, worker, worker_text, runs, progress_bar>>
       ELSE /\ runs < MaxRuns
            /\ summarize_button' = FALSE
            /\ progress_bar' = TRUE
            /\ message_box' = ""
            /\ worker' = "started"
            /\ worker_text' = input_text
            /\ runs' = runs + 1
    /\ UNCHANGED <<app, pc, search, ai3vars, pfvars, mazevars, sudokuvars, input_text, output_text,
                   summarizer_pipeline, summarization_thread, event_queue, emitted,
                   handled, history, crashed, window, save_btn>>

\* SummarizationWorker.run
SummarizationWorker_run(outcome) ==
    /\ SumAlive /\ app \in ArticleApps
    /\ worker = "started"
    /\ emitted' = emitted \o Signals(SummarizationWorker_signals(outcome), runs)
    /\ event_queue' = event_queue \o Posted(app, SummarizationWorker_signals(outcome), 1,
                                            runs, Summary(worker_text))
    /\ worker' = "returned"
    /\ UNCHANGED <<app, pc, search, ai3vars, pfvars, mazevars, sudokuvars, input_text, output_text,
                   summarize_button, summarizer_pipeline, summarization_thread,
                   worker_text, runs, handled, history, message_box, crashed, window,
                   progress_bar, save_btn>>

\* ArticleSummarizerApp.on_summarization_finished.  In
\* summarizer_app_assignment/main.py the division raises ZeroDivisionError
\* when original_text holds no word, and the exception that leaves the slot
\* aborts the process; Summarizer_App/main.py divides only when
\* original_words > 0.
on_summarization_finished ==
    /\ SumAlive /\ app \in ArticleApps
    /\ SumNext("on_summarization_finished")
    /\ event_queue' = Tail(event_queue)
    /\ handled' = Append(handled, [slot |-> Head(event_queue).slot,
                                   run |-> Head(event_queue).run])
    /\ output_text' = Head(event_queue).arg
    /\ save_btn' = TRUE
    /\ IF app = "ArticleSummarizer" /\ input_text = ""
       THEN crashed' = TRUE /\ UNCHANGED <<summarize_button, progress_bar>>
       ELSE summarize_button' = TRUE /\ progress_bar' = FALSE /\ UNCHANGED crashed
    /\ UNCHANGED <<app, pc, search, ai3vars, pfvars, mazevars, sudokuvars, input_text,
                   summarizer_pipeline, summarization_thread, worker, worker_text, runs,
                   emitted, history, message_box, window>>

\* ArticleSummarizerApp.on_summarization_error
on_summarization_error ==
    /\ SumAlive /\ app \in ArticleApps
    /\ SumNext("on_summarization_error")
    /\ event_queue' = Tail(event_queue)
    /\ handled' = Append(handled, [slot |-> Head(event_queue).slot,
                                   run |-> Head(event_queue).run])
    /\ message_box' = "Error"
    /\ summarize_button' = TRUE
    /\ progress_bar' = FALSE
    /\ UNCHANGED <<app, pc, search, ai3vars, pfvars, mazevars, sudokuvars, input_text, output_text,
                   summarizer_pipeline, summarization_thread, worker, worker_text, runs,
                   emitted, history, crashed, window, save_btn>>

\* ArticleSummarizerApp.save_current_summary, the slot of save_btn.clicked;
\* history holds the rows of table summaries.
save_current_summary ==
    /\ SumAlive /\ app \in ArticleApps
    /\ save_btn
    /\ IF input_text = "" \/ output_text = ""
       THEN /\ message_box' = "Warning"
            /\ UNCHANGED <<history, save_btn>>
       ELSE /\ Len(history) < MaxRuns
            /\ history' = Append(history, [original_text |-> input_text,
                                           summary_text |-> output_text])
            /\ message_box' = "Success"
            /\ save_btn' = FALSE
    /\ UNCHANGED <<app, pc, search, ai3vars, pfvars, mazevars, sudokuvars, input_text, output_text,
                   summarize_button, summarizer_pipeline, summarization_thread, worker,
                   worker_text, event_queue, runs, emitted, handled, crashed, window,
                   progress_bar>>

\* ArticleSummarizerApp.load_selected_summary for the i-th saved summary
load_selected_summary(i) ==
    /\ SumAlive /\ app \in ArticleApps
    /\ i \in 1 .. Len(history)
    /\ input_text' = history[i].original_text
    /\ output_text' = history[i].summary_text
    /\ save_btn' = FALSE
    /\ UNCHANGED <<app, pc, search, ai3vars, pfvars, mazevars, sudokuvars, summarize_button,
                   summarizer_pipeline, summarization_thread, worker, worker_text,
                   event_queue, runs, emitted, handled, history, message_box, crashed,
                   window, progress_bar>>

\* ArticleSummarizerApp.clear_all_fields, the slot of the Clear All button
clear_all_fields ==
    /\ SumAlive /\ app \in ArticleApps
    /\ input_text' = ""
    /\ output_text' = ""
    /\ save_btn' = FALSE
    /\ UNCHANGED <<app, pc, search, ai3vars, pfvars, mazevars, sudokuvars, summarize_button,
                   summarizer_pipeline, summarization_thread, worker, worker_text,
                   event_queue, runs, emitted, handled, history, message_box, crashed,
                   window, progress_bar>>

\* The window of ArticleSummarizerApp is closed; the class has no closeEvent,
\* the close is accepted and with the last window the application quits.
ArticleSummarizerApp_close ==
    /\ SumAlive /\ app \in ArticleApps
    /\ window' = "closed"
    /\ UNCHANGED <<app, pc, search, ai3vars, pfvars, mazevars, sudokuvars, input_text, output_text,
                   summarize_button, summarizer_pipeline, summarization_thread, worker,
                   worker_text, event_queue, runs, emitted, handled, history,
                   message_box, crashed, progress_bar, save_btn>>

\* ------------------------------------------------- Main (3).py SudokuSolver
SIZE == BOX * BOX
Digits == 1 .. SIZE
SudokuCells == (0 .. SIZE - 1) \X (0 .. SIZE - 1)
EntryCells == {0} \X (0 .. EntryCols - 1)

\* self.max_hints
max_hints == 5

\* self.solution = None
NoBoard == << >>
NoCall == [called |-> FALSE, board |-> NoBoard, ok |-> FALSE, result |-> NoBoard]

\* [[0]*9 for _ in range(9)]
EmptyBoard == [c \in SudokuCells |-> 0]

\* The variables of the Sudoku window while another program runs.
SudokuOff ==
    /\ sudoku_cells = EmptyBoard
    /\ hint_count = 0
    /\ solution = NoBoard
    /\ sudoku_msg = ""
    /\ hints = << >>
    /\ solve_call = NoCall

\* The k-th cell of "for row in range(9): for col in range(9)".
CellAt(k) == <<k \div SIZE, k % SIZE>>

\* The first cell of that order whose entry is 0, as an index; SIZE * SIZE when
\* the loops end without one.
FirstEmpty(board) ==
    IF \E k \in 0 .. SIZE * SIZE - 1 : board[CellAt(k)] = 0
    THEN CHOOSE k \in 0 .. SIZE * SIZE - 1 :
            /\ board[CellAt(k)] = 0
            /\ \A j \in 0 .. k - 1 : board[CellAt(j)] # 0
    ELSE SIZE * SIZE

\* get_board: None (here NoBoard) when a text is neither empty nor one digit
\* of 1 .. 9; the warning is shown by the caller's action.
get_board ==
    IF \E c \in SudokuCells : sudoku_cells[c] \notin (0 .. SIZE) THEN NoBoard
    ELSE sudoku_cells

is_valid(board, row, col, num) ==
    /\ \A i \in 0 .. SIZE - 1 : board[<<row, i>>] # num /\ board[<<i, col>>] # num
    /\ LET start_row == BOX * (row \div BOX)
           start_col == BOX * (col \div BOX)
       IN \A i \in 0 .. BOX - 1, j \in 0 .. BOX - 1 :
             board[<<start_row + i, start_col + j>>] # num

\* solve_board: [ok |-> the value returned, board |-> the list as the call
\* leaves it].  TryNum is the loop "for num in range(1, 10)" from num on for
\* the empty cell at index k.
RECURSIVE solve_board(_)
RECURSIVE TryNum(_, _, _)
solve_board(board) ==
    LET k == FirstEmpty(board)
    IN IF k = SIZE * SIZE THEN [ok |-> TRUE, board |-> board]
       ELSE TryNum(board, k, 1)

TryNum(board, k, num) ==
    IF num > SIZE THEN [ok |-> FALSE, board |-> board]
    ELSE IF is_valid(board, CellAt(k)[1], CellAt(k)[2], num)
         THEN LET r == solve_board([board EXCEPT ![CellAt(k)] = num])
              IN IF r.ok THEN r ELSE TryNum(board, k, num + 1)
         ELSE TryNum(board, k, num + 1)

SudokuAlive == app = "Sudoku"

\* The user edits the text of a cell: the validator QIntValidator(1, 9) and
\* setMaxLength(1) let through the empty text, a digit 1 .. 9, and the
\* intermediate texts "0" and "+" (here -1).
Sudoku_edit_cell(c, num) ==
    /\ SudokuAlive
    /\ sudoku_cells' = [sudoku_cells EXCEPT ![c] = num]
    /\ sudoku_msg' = ""
    /\ solve_call' = NoCall
    /\ UNCHANGED <<app, pc, search, ai3vars, pfvars, mazevars, sumvars,
                   hint_count, solution, hints>>

Sudoku_clear_board ==
    /\ SudokuAlive
    /\ sudoku_cells' = EmptyBoard
    /\ hint_count' = 0
    /\ hints' = << >>
    /\ sudoku_msg' = ""
    /\ solve_call' = NoCall
    /\ UNCHANGED <<app, pc, search, ai3vars, pfvars, mazevars, sumvars, solution>>

Sudoku_solve ==
    /\ SudokuAlive
    /\ LET board == get_board
       IN IF board = NoBoard
          THEN /\ sudoku_msg' = "Invalid Input"
               /\ solve_call' = NoCall
               /\ UNCHANGED sudoku_cells
          ELSE LET r == solve_board(board)
               IN /\ solve_call' = [called |-> TRUE, board |-> board, ok |-> r.ok,
                                    result |-> r.board]
                  /\ IF r.ok
                     THEN sudoku_cells' = r.board /\ sudoku_msg' = ""
                     ELSE UNCHANGED sudoku_cells /\ sudoku_msg' = "Unsolvable"
    /\ UNCHANGED <<app, pc, search, ai3vars, pfvars, mazevars, sumvars,
                   hint_count, solution, hints>>

\* provide_hint below the limit: the lines after the first return.
give_hint ==
    LET board == get_board
    IN IF board = NoBoard
       THEN /\ sudoku_msg' = "Invalid Input"
            /\ solve_call' = NoCall
            /\ UNCHANGED <<sudoku_cells, hint_count, solution, hints>>
       ELSE LET r == solve_board(board)
                unsolvable == solution = NoBoard /\ ~r.ok
                sol == IF solution = NoBoard THEN r.board ELSE solution
                k == FirstEmpty(board)
            IN /\ solve_call' = IF solution = NoBoard
                                THEN [called |-> TRUE, board |-> board,
                                      ok |-> r.ok, result |-> r.board]
                                ELSE NoCall
               /\ IF unsolvable
                  THEN /\ sudoku_msg' = "Unsolvable"
                       /\ UNCHANGED <<sudoku_cells, hint_count, solution, hints>>
                  ELSE /\ sudoku_msg' = ""
                       /\ solution' = sol
                       /\ IF k < SIZE * SIZE
                          THEN /\ sudoku_cells' = [sudoku_cells EXCEPT
                                                      ![CellAt(k)] = sol[CellAt(k)]]
                               /\ hint_count' = hint_count + 1
                               /\ hints' = Append(hints, [cell |-> CellAt(k),
                                                          num |-> sol[CellAt(k)]])
                          ELSE UNCHANGED <<sudoku_cells, hint_count, hints>>

provide_hint_above_limit ==
    /\ SudokuAlive
    /\ IF hint_count > max_hints
       THEN /\ sudoku_msg' = "Hint Limit"
            /\ solve_call' = NoCall
            /\ UNCHANGED <<sudoku_cells, hint_count, solution, hints>>
       ELSE give_hint
    /\ UNCHANGED <<app, pc, search, ai3vars, pfvars, mazevars, sumvars>>

provide_hint ==
    /\ SudokuAlive
    /\ IF hint_count >= max_hints
       THEN /\ sudoku_msg' = "Hint Limit"
            /\ solve_call' = NoCall
            /\ UNCHANGED <<sudoku_cells, hint_count, solution, hints>>
       ELSE give_hint
    /\ UNCHANGED <<app, pc, search, ai3vars, pfvars, mazevars, sumvars>>

\* The boards start_new_game can show: full_board with cells_to_remove cells,
\* picked by random.randint, set to 0.
Puzzle(full_board, removed) ==
    [c \in SudokuCells |-> IF c \in removed THEN 0 ELSE full_board[c]]

\* The subsets of S with k elements.
RECURSIVE KSubsets(_, _)
KSubsets(S, k) ==
    IF k = 0 THEN {{}}
    ELSE UNION { {T \cup {x} : T \in KSubsets(S \ {x}, k - 1)} : x \in S }

Removals == KSubsets(SudokuCells, CellsToRemove)

\* full_board = [[0]*9 for _ in range(9)]; self.solve_board(full_board)
NewGameCall == solve_board(EmptyBoard)

start_new_game ==
    /\ SudokuAlive
    /\ solve_call' = [called |-> TRUE, board |-> EmptyBoard, ok |-> NewGameCall.ok,
                      result |-> NewGameCall.board]
    /\ solution' = NewGameCall.board
    /\ \E removed \in Removals : sudoku_cells' = Puzzle(NewGameCall.board, removed)
    /\ hint_count' = 0
    /\ hints' = << >>
    /\ sudoku_msg' = ""
    /\ UNCHANGED <<app, pc, search, ai3vars, pfvars, mazevars, sumvars>>

\* SudokuSolver.__init__: self.solution = None, then start_new_game().
SudokuInit ==
    /\ hint_count = 0
    /\ hints = << >>
    /\ sudoku_msg = ""
    /\ solve_call = [called |-> TRUE, board |-> EmptyBoard, ok |-> NewGameCall.ok,
                     result |-> NewGameCall.board]
    /\ solution = NewGameCall.board
    /\ \E removed \in Removals : sudoku_cells = Puzzle(NewGameCall.board, removed)

\* ------------------------------------------------------- specifications
\* Spec: one of the programs is started and driven through its user interface.
Init ==
    /\ app \in {"AI3", "PF", "Maze"}
    /\ pc = "idle"
    /\ SumInit
    /\ SudokuOff
    /\ search = NoSearch
    /\ AI3Init
    /\ PFInit
    /\ MazeInit

Next ==
    \/ \E cell \in ClickCells : AI3_cell_clicked(cell)
    \/ solve_bfs
    \/ solve_dfs
    \/ solve_ucs
    \/ AI3_clear_grid
    \/ \E cell \in ClickCells, button \in {"LeftButton", "RightButton"} :
          handle_view_mouse_press(cell, button)
    \/ \E algorithm \in Algorithms : run_algorithm(algorithm)
    \/ step_visualization
    \/ Grid_reset
    \/ Grid_clear_all
    \/ \E cell \in ClickCells \cap MazeCells : Maze_cell_clicked(cell)
    \/ Maze_clear_grid
    \/ Maze_solve_bfs
    \/ Maze_processEvents_return
    \/ \E name \in MazeStubs : Maze_solve_stub(name)

Spec == Init /\ [][Next]_vars

\* SpecSearch: each search is applied once to every layout with distinct open
\* start and goal cells and at most MaxWalls walls, as the clicks of the user
\* interface leave it.
WallSets(n) == {W \in SUBSET Cells : Cardinality(W) <= n}

AI3Layout(W, s, g) ==
    /\ state = [c \in Cells |-> IF c \in W THEN 1 ELSE IF c = s THEN 2
                                 ELSE IF c = g THEN 3 ELSE 0]
    /\ start_pos = s
    /\ goal_pos = g
    /\ click_stage = 2
    /\ wall_count = Cardinality(W)
    /\ info_label = IF W = {} THEN Label("Click to place walls.", "")
                    ELSE [Label("Walls placed", "") EXCEPT !.steps = Cardinality(W)]

PFLayout(W, s, g) ==
    /\ cells = [c \in GridCells |-> IF c \in W THEN "wall" ELSE IF c = s THEN "start"
                                     ELSE IF c = g THEN "goal" ELSE "empty"]
    /\ grid_start = s
    /\ grid_goal = g
    /\ steps = << >>
    /\ path = << >>
    /\ step_counter = 0
    /\ algorithm_running = FALSE
    /\ timer_active = FALSE
    /\ pq_counter = 0
    /\ status_msg = ""

SearchInit ==
    /\ app \in {"AI3", "PF"}
    /\ pc = "idle"
    /\ SumInit
    /\ SudokuOff
    /\ search = NoSearch
    /\ \E W \in WallSets(MaxWalls) : \E s \in Cells \ W : \E g \in Cells \ (W \cup {s}) :
          IF app = "AI3" THEN AI3Layout(W, s, g) /\ PFInit
          ELSE PFLayout(W, s, g) /\ AI3Init
    /\ MazeInit

Apply_solve_bfs == search = NoSearch /\ solve_bfs

Apply_solve_dfs == search = NoSearch /\ solve_dfs

Apply_solve_ucs == search = NoSearch /\ solve_ucs

Apply_run_algorithm(algorithm) == search = NoSearch /\ run_algorithm(algorithm)

SearchNext ==
    \/ Apply_solve_bfs
    \/ Apply_solve_dfs
    \/ Apply_solve_ucs
    \/ \E algorithm \in Algorithms : Apply_run_algorithm(algorithm)

SpecSearch == SearchInit /\ [][SearchNext]_vars

\* SpecSearchPF: a_star_search and greedy_best_first_search applied once to
\* every layout of the visualizer with at most MaxWallsPF walls.
SearchPFInit ==
    /\ app = "PF"
    /\ pc = "idle"
    /\ SumInit
    /\ SudokuOff
    /\ search = NoSearch
    /\ AI3Init
    /\ MazeInit
    /\ \E W \in WallSets(MaxWallsPF) : \E s \in GridCells \ W :
          \E g \in GridCells \ (W \cup {s}) : PFLayout(W, s, g)

SearchPFNext == \E algorithm \in Algorithms : Apply_run_algorithm(algorithm)

SpecSearchPF == SearchPFInit /\ [][SearchPFNext]_vars

\* SpecStep: the searches taken one iteration of their while loop at a time,
\* on every layout with at most MaxWalls walls (AI3.py, Main (2).py) and on
\* every layout of Main.py's grid; no user event arrives during a search.
MazeLayout(W, s, g) ==
    /\ maze_state = [c \in MazeCells |-> IF c \in W THEN "wall" ELSE IF c = s THEN "start"
                                          ELSE IF c = g THEN "goal" ELSE "empty"]
    /\ maze_start_pos = s
    /\ maze_goal_pos = g
    /\ setting_mode = "wall"
    /\ maze_info_label = "Click to add/remove walls"
    /\ call_stack = << >>
    /\ maze_error = ""

StepInit ==
    /\ app \in {"AI3", "PF", "Maze"}
    /\ pc = "idle"
    /\ SumInit
    /\ SudokuOff
    /\ search = NoSearch
    /\ IF app = "AI3"
       THEN \E W \in WallSets(MaxWalls) : \E s \in Cells \ W : \E g \in Cells \ (W \cup {s}) :
               AI3Layout(W, s, g) /\ PFInit /\ MazeInit
       ELSE IF app = "PF"
       THEN \E W \in WallSets(MaxWalls) : \E s \in GridCells \ W :
               \E g \in GridCells \ (W \cup {s}) :
                  PFLayout(W, s, g) /\ AI3Init /\ MazeInit
       ELSE \E W \in SUBSET MazeCells : \E s \in MazeCells \ W :
               \E g \in MazeCells \ (W \cup {s}) :
                  MazeLayout(W, s, g) /\ AI3Init /\ PFInit

\* solve_bfs, solve_dfs or solve_ucs of AI3.py up to its while loop; init is
\* the value of its locals there.
AI3Begin(handler, init) ==
    /\ app = "AI3" /\ pc = "idle" /\ search = NoSearch
    /\ start_pos # None /\ goal_pos # None
    /\ pc' = handler
    /\ search' = init
    /\ UNCHANGED <<app, sumvars, sudokuvars, ai3vars, pfvars, mazevars>>

\* The test of the while loop of a solve_* of AI3.py and, s2 being the locals
\* after the iteration that follows it, that iteration; with the loop the
\* handler ends, by draw_path_with_steps or by its "No path found" text.
AI3Step(handler, algorithm_name, s2) ==
    /\ app = "AI3" /\ pc = handler
    /\ search' = s2
    /\ IF s2.status = "running"
       THEN UNCHANGED <<pc, info_label>>
       ELSE /\ pc' = "idle"
            /\ info_label' = IF s2.status = "found"
                             THEN draw_path_with_steps(s2.parent, start_pos, goal_pos,
                                                       algorithm_name)
                             ELSE Label("No path found", algorithm_name)
    /\ UNCHANGED <<app, sumvars, sudokuvars, state, start_pos, goal_pos, click_stage, wall_count, pfvars,
                   mazevars>>

Begin_solve_bfs == AI3Begin("solve_bfs", ListSearchInit(start_pos))

Begin_solve_dfs == AI3Begin("solve_dfs", ListSearchInit(start_pos))

Begin_solve_ucs == AI3Begin("solve_ucs", UcsInit(start_pos))

Step_solve_bfs ==
    AI3Step("solve_bfs", "BFS",
            IF search.frontier = << >> THEN [search EXCEPT !.status = "exhausted"]
            ELSE BfsIter(state, goal_pos, search))

Step_solve_dfs ==
    AI3Step("solve_dfs", "DFS",
            IF search.frontier = << >> THEN [search EXCEPT !.status = "exhausted"]
            ELSE DfsIter(state, goal_pos, search))

Step_solve_ucs ==
    AI3Step("solve_ucs", "UCS",
            IF search.frontier = << >> THEN [search EXCEPT !.status = "exhausted"]
            ELSE UcsIter(state, goal_pos, search))

\* run_algorithm of Main (2).py up to the while loop of the search it calls.
Begin_run_algorithm(algorithm) ==
    /\ app = "PF" /\ pc = "idle" /\ search = NoSearch
    /\ grid_start # None /\ grid_goal # None
    /\ pc' = algorithm
    /\ cells' = ClearedCells(cells)
    /\ steps' = << >>
    /\ path' = << >>
    /\ step_counter' = 0
    /\ algorithm_running' = TRUE
    /\ timer_active' = FALSE
    /\ status_msg' = ""
    /\ search' = IF algorithm = "A* Algorithm" THEN AStarInit(grid_start, pq_counter)
                 ELSE GreedyInit(grid_start, pq_counter)
    /\ UNCHANGED <<app, sumvars, sudokuvars, grid_start, grid_goal, pq_counter, ai3vars, mazevars>>

\* The test of the while loop of the search of Main (2).py and, s2 being the
\* locals after it, the iteration that follows; with the loop the search
\* returns and run_algorithm runs to its end.
PFStep(s2) ==
    /\ IF s2.status = "running"
       THEN /\ search' = s2
            /\ UNCHANGED <<pc, cells, steps, path, step_counter, algorithm_running,
                           timer_active, pq_counter, status_msg>>
       ELSE /\ pc' = "idle"
            /\ RunFinish(cells, s2)
    /\ UNCHANGED <<app, sumvars, sudokuvars, grid_start, grid_goal, ai3vars, mazevars>>

Step_a_star_search ==
    /\ app = "PF" /\ pc = "A* Algorithm"
    /\ PFStep(IF search.frontier = << >> THEN [search EXCEPT !.status = "exhausted"]
              ELSE AStarIter(cells, grid_start, grid_goal, search))

Step_greedy_best_first_search ==
    /\ app = "PF" /\ pc = "Greedy Best-First Search"
    /\ PFStep(IF search.frontier = << >> THEN [search EXCEPT !.status = "exhausted"]
              ELSE GreedyIter(cells, grid_start, grid_goal, search))

StepNext ==
    \/ Begin_solve_bfs
    \/ Begin_solve_dfs
    \/ Begin_solve_ucs
    \/ Step_solve_bfs
    \/ Step_solve_dfs
    \/ Step_solve_ucs
    \/ \E algorithm \in Algorithms : Begin_run_algorithm(algorithm)
    \/ Step_a_star_search
    \/ Step_greedy_best_first_search
    \/ Maze_solve_bfs
    \/ Maze_processEvents_return

SpecStep == StepInit /\ [][StepNext]_vars

\* SpecRerun: run_algorithm of Main (2).py and solve_bfs of Main.py run again
\* and again on a layout nobody edits (at most MaxWallsRerun walls in the
\* visualizer, every layout of Main.py's grid), the timer of the visualizer
\* painting the cells between the runs; a run starts while pq_counter is
\* below MaxPqRerun.
RerunInit ==
    /\ app \in {"PF", "Maze"}
    /\ pc = "idle"
    /\ SumInit
    /\ SudokuOff
    /\ search = NoSearch
    /\ AI3Init
    /\ IF app = "PF"
       THEN \E W \in WallSets(MaxWallsRerun) : \E s \in GridCells \ W :
               \E g \in GridCells \ (W \cup {s}) : PFLayout(W, s, g) /\ MazeInit
       ELSE \E W \in SUBSET MazeCells : \E s \in MazeCells \ W :
               \E g \in MazeCells \ (W \cup {s}) : MazeLayout(W, s, g) /\ PFInit

\* PathfindingApp.run_algorithm, entered with any pq_counter below MaxPqRerun.
Rerun_run_algorithm(algorithm) ==
    /\ app = "PF"
    /\ IF grid_start = None \/ grid_goal = None
       THEN /\ status_msg' = "Please set start and goal nodes!"
            /\ search' = NoSearch
            /\ UNCHANGED <<cells, steps, path, step_counter, algorithm_running,
                           timer_active, pq_counter>>
       ELSE /\ pq_counter < MaxPqRerun
            /\ RunFinish(ClearedCells(cells), RunSearch(algorithm, ClearedCells(cells)))
    /\ UNCHANGED <<app, sumvars, sudokuvars, pc, grid_start, grid_goal, ai3vars, mazevars>>

RerunNext ==
    \/ \E algorithm \in Algorithms : Rerun_run_algorithm(algorithm)
    \/ step_visualization
    \/ Maze_solve_bfs
    \/ Maze_processEvents_return

SpecRerun == RerunInit /\ [][RerunNext]_vars

\* SpecChain: draw_path_with_steps of AI3.py and reconstruct_path of
\* Main (2).py applied to predecessor dicts of every shape, complete or not,
\* over the cells ChainCell(1) .. ChainCell(MaxChain).  No dict has a cycle:
\* the predecessor of ChainCell(i) is a cell of lower index.
ChainCell(i) == <<0, i - 1>>

\* The dict that k describes for the cells ChainCell(1) .. ChainCell(i):
\* k[j] = 0 for no entry, k[j] = j for the entry None, else the index of the
\* predecessor.
RECURSIVE DictOf(_, _)
DictOf(k, i) ==
    IF i = 0 THEN EmptyDict
    ELSE IF k[i] = 0 THEN DictOf(k, i - 1)
    ELSE Put(DictOf(k, i - 1), ChainCell(i),
             IF k[i] = i THEN None ELSE ChainCell(k[i]))

ChainInit ==
    /\ app \in {"AI3", "PF"}
    /\ pc = "idle"
    /\ SumInit
    /\ SudokuOff
    /\ MazeInit
    /\ \E s, g \in 1 .. MaxChain :
          /\ s # g
          /\ IF app = "AI3"
             THEN /\ AI3Layout({}, ChainCell(s), ChainCell(g))
                  /\ PFInit
                  /\ \E k \in [1 .. MaxChain -> 0 .. MaxChain] :
                        /\ \A i \in 1 .. MaxChain : k[i] < i
                        /\ search = [NoSearch EXCEPT !.parent = DictOf(k, MaxChain),
                                                     !.status = "input"]
             ELSE /\ PFLayout({}, ChainCell(s), ChainCell(g))
                  /\ AI3Init
                  /\ \E k \in [1 .. MaxChain -> 0 .. MaxChain] :
                        /\ \A i \in 1 .. MaxChain : k[i] <= i
                        /\ search = [came_from |-> DictOf(k, MaxChain), status |-> "input"]

\* draw_path_with_steps(parent, "BFS") of AI3.py: info_label.msg is
\* "KeyError" when parent[current] raised it.
Apply_draw_path_with_steps ==
    /\ app = "AI3" /\ search.status = "input"
    /\ info_label' = draw_path_with_steps(search.parent, start_pos, goal_pos, "BFS")
    /\ search' = [search EXCEPT !.status = "applied"]
    /\ UNCHANGED <<app, sumvars, sudokuvars, pc, state, start_pos, goal_pos, click_stage, wall_count, pfvars,
                   mazevars>>

\* self.path = self.reconstruct_path(start, goal, came_from) of Main (2).py;
\* status_msg is "returned" after the call has returned a list.
Apply_reconstruct_path ==
    /\ app = "PF" /\ search.status = "input"
    /\ path' = reconstruct_path(grid_start, grid_goal, search.came_from)
    /\ status_msg' = "returned"
    /\ search' = [search EXCEPT !.status = "applied"]
    /\ UNCHANGED <<app, sumvars, sudokuvars, pc, cells, grid_start, grid_goal, steps, step_counter,
                   algorithm_running, timer_active, pq_counter, ai3vars, mazevars>>

ChainNext == Apply_draw_path_with_steps \/ Apply_reconstruct_path

SpecChain == ChainInit /\ [][ChainNext]_vars

\* SpecSummarize: one of the summarizers is started, the user edits the text
\* and presses the summarize button, at most MaxRuns runs are started.
SummarizeInit ==
    /\ app \in SummarizerApps
    /\ pc = "idle"
    /\ SumInit
    /\ SudokuOff
    /\ search = NoSearch
    /\ AI3Init
    /\ PFInit
    /\ MazeInit

SummarizeNext ==
    \/ \E text \in Texts : Sum_edit_text(text)
    \/ \E destroyed \in BOOLEAN : run_summarization(destroyed)
    \/ \E outcome \in PipelineOutcomes : SummarizerWorker_run(outcome)
    \/ SummarizerApp_on_summary_complete
    \/ SummarizerApp_on_summary_error
    \/ \E i \in 1 .. MaxRuns : display_history_item(i)
    \/ QThread_quit
    \/ QThread_finished
    \/ \E outcome \in PipelineOutcomes, deleted \in BOOLEAN :
          SummarizerApp_closeEvent(outcome, deleted)
    \/ summarize_article
    \/ \E outcome \in SummarizeOutcomes : SummarizationWorker_run(outcome)
    \/ on_summarization_finished
    \/ on_summarization_error
    \/ save_current_summary
    \/ \E i \in 1 .. MaxRuns : load_selected_summary(i)
    \/ clear_all_fields
    \/ ArticleSummarizerApp_close

SpecSummarize == SummarizeInit /\ [][SummarizeNext]_vars

\* SpecSudoku: the Sudoku window is started and driven through its user
\* interface.
SudokuUiInit ==
    /\ app = "Sudoku"
    /\ pc = "idle"
    /\ SumInit
    /\ search = NoSearch
    /\ AI3Init
    /\ PFInit
    /\ MazeInit
    /\ SudokuInit

SudokuNext ==
    \/ \E c \in EntryCells, num \in (0 .. SIZE) \cup {-1} : Sudoku_edit_cell(c, num)
    \/ Sudoku_clear_board
    \/ Sudoku_solve
    \/ provide_hint
    \/ start_new_game

SpecSudoku == SudokuUiInit /\ [][SudokuNext]_vars

\* ------------------------------------------------- reference definitions
\* Two cells are one move apart.
Adjacent(a, b) == Abs(a[1] - b[1]) + Abs(a[2] - b[2]) = 1

\* The cells reachable from the set R by moves through the cells of open.
RECURSIVE MovesFrom(_, _, _, _)
MovesFrom(open, R, g, k) ==
    IF g \in R THEN k
    ELSE LET R2 == R \cup {c \in open : \E d \in R : Adjacent(c, d)}
         IN  IF R2 = R THEN -1 ELSE MovesFrom(open, R2, g, k + 1)

\* The least number of moves from s to g through the cells of open, -1 when
\* g cannot be reached.
MinMoves(open, s, g) == MovesFrom(open, {s}, g, 0)

\* The non-wall cells of the two grids.
OpenAI3 == {c \in Cells : state[c] # 1}

OpenPF == {c \in GridCells : cells[c] # "wall"}

\* p is a sequence of cells, each one move from the one before, all but the
\* first among the cells of open.
IsWalk(open, p) ==
    /\ \A i \in 2 .. Len(p) : p[i] \in open
    /\ \A i \in 1 .. Len(p) - 1 : Adjacent(p[i], p[i + 1])

NoRepeat(q) == \A i, j \in 1 .. Len(q) : q[i] = q[j] => i = j

\* The handler that has just returned is the named solve_* of AI3.py, run
\* with both end points set.
AI3Ran(algorithm_name) ==
    app = "AI3" /\ search # NoSearch /\ info_label.algo = algorithm_name

\* The handler that has just returned is run_algorithm of Main (2).py with
\* both end points set; the search keeps cost_so_far exactly when it is A*.
PFRan(algorithm) ==
    /\ app = "PF" /\ search # NoSearch
    /\ (algorithm = "A* Algorithm") <=> ("cost_so_far" \in DOMAIN search)

\* The layout of the visualizer's grid as a self.state of AI3.py.
AsState(cs) == [c \in Cells |-> IF cs[c] = "wall" THEN 1 ELSE 0]

\* "Steps" solve_bfs of AI3.py reports on the grid st, -1 when it finds no path.
BfsSteps(st, s, g) ==
    LET final == BfsLoop(st, g, ListSearchInit(s))
    IN  IF final.status = "found"
        THEN draw_path_with_steps(final.parent, s, g, "BFS").steps ELSE -1

\* ------------------------------------------------------------ properties
Manhattan(a, b) == Abs(a[1] - b[1]) + Abs(a[2] - b[2])

\* p is a walk from s to g through the cells of open with n moves.
IsPath(open, p, s, g, n) ==
    /\ Len(p) = n + 1
    /\ p[1] = s
    /\ p[Len(p)] = g
    /\ IsWalk(open, p)

\* C1: whenever solve_bfs reports a path, the path it draws is a walk from
\* start to goal through non-wall cells and its "Steps" is the least number
\* of moves of any such walk.
C1_BfsShortest ==
    (AI3Ran("BFS") /\ info_label.msg = "Path found")
        => /\ IsPath(OpenAI3, info_label.path, start_pos, goal_pos, info_label.steps)
           /\ info_label.steps = MinMoves(OpenAI3, start_pos, goal_pos)

\* solve_bfs has reported a path that walls make longer than the direct one.
C1_Witness ==
    /\ AI3Ran("BFS") /\ info_label.msg = "Path found"
    /\ wall_count > 0
    /\ info_label.steps > Manhattan(start_pos, goal_pos)

\* C2: whenever a_star_search reaches the goal, the path run_algorithm
\* reconstructs has as many steps as solve_bfs reports on the same layout.
C2_AStarEqualsBfs ==
    (PFRan("A* Algorithm") /\ grid_goal \in DOMAIN search.came_from)
        => Len(path) = BfsSteps(AsState(cells), grid_start, grid_goal)

\* a_star_search has found a path around walls.
C2_Witness ==
    /\ PFRan("A* Algorithm") /\ search.status = "found"
    /\ Len(path) > Manhattan(grid_start, grid_goal)

\* C3: a path found by solve_dfs or by greedy_best_first_search has at least
\* as many steps as the path solve_bfs finds on the same layout.
C3_DfsGreedyNotShorter ==
    /\ (AI3Ran("DFS") /\ info_label.msg = "Path found")
          => info_label.steps >= BfsSteps(state, start_pos, goal_pos)
    /\ (PFRan("Greedy Best-First Search") /\ grid_goal \in DOMAIN search.came_from)
          => /\ BfsSteps(AsState(cells), grid_start, grid_goal) >= 0
             /\ Len(path) >= BfsSteps(AsState(cells), grid_start, grid_goal)

\* greedy_best_first_search has found a path strictly longer than the
\* breadth-first one.
C3_Witness ==
    /\ PFRan("Greedy Best-First Search") /\ search.status = "found"
    /\ Len(path) > BfsSteps(AsState(cells), grid_start, grid_goal)

\* C4: on a grid without walls solve_bfs reports a path whose "Steps" is the
\* Manhattan distance of start and goal, and it takes no more cells from the
\* queue than the grid has.
C4_BfsManhattan ==
    (AI3Ran("BFS") /\ \A c \in Cells : state[c] # 1)
        => /\ info_label.msg = "Path found"
           /\ info_label.steps = Manhattan(start_pos, goal_pos)
           /\ Len(search.popped) <= ROWS * COLS

\* solve_bfs has run corner to corner on the grid without walls.
C4_Witness ==
    /\ AI3Ran("BFS") /\ \A c \in Cells : state[c] # 1
    /\ start_pos = <<0, 0>> /\ goal_pos = <<ROWS - 1, COLS - 1>>
    /\ info_label.steps = ROWS + COLS - 2

\* C5: every search ends, and the handler reports that there is no path
\* exactly when the goal cannot be reached from the start through non-wall
\* cells.
C5_NoPathIffUnreachable ==
    /\ (app = "AI3" /\ search # NoSearch)
          => /\ search.status \in {"found", "exhausted"}
             /\ info_label.msg = "No path found"
                  <=> MinMoves(OpenAI3, start_pos, goal_pos) = -1
    /\ (app = "PF" /\ search # NoSearch)
          => /\ search.status \in {"found", "exhausted"}
             /\ status_msg = "No path found!"
                  <=> MinMoves(OpenPF, grid_start, grid_goal) = -1

\* p is a sequence of cells of open, each one move from the one before.
IsChain(open, p) ==
    /\ \A i \in 1 .. Len(p) : p[i] \in open
    /\ \A i \in 1 .. Len(p) - 1 : Adjacent(p[i], p[i + 1])

\* C6: after a search that reached the goal, the walk along the predecessor
\* links from the goal arrives at the start, never meets a cell without a
\* predecessor, and every link joins two neighbouring non-wall cells; in
\* Main.py, where the walk is reconstruct_path, it never raises.
C6_ChainReachesStart ==
    /\ (app = "AI3" /\ search.status = "found")
          => /\ WalkParents(search.parent, start_pos, goal_pos, << >>, ROWS * COLS).err = ""
             /\ IsChain(OpenAI3, WalkParents(search.parent, start_pos, goal_pos, << >>,
                                             ROWS * COLS).path)
    /\ (app = "PF" /\ search.status = "found")
          => /\ WalkParents(search.came_from, grid_start, grid_goal, << >>,
                            GRID_ROWS * GRID_COLS).err = ""
             /\ IsChain(OpenPF, WalkParents(search.came_from, grid_start, grid_goal, << >>,
                                            GRID_ROWS * GRID_COLS).path)
    /\ maze_error = ""

\* C7: a solve or run handler called while the start or the goal is unset
\* shows the missing-end-points message, runs no search, and leaves the
\* grid, the start and the goal as they were.
C7_MissingEndpoints ==
    [][ /\ ((start_pos = None \/ goal_pos = None) /\ (solve_bfs \/ solve_dfs \/ solve_ucs))
            => /\ info_label' = Label("Please set both Start and Goal positions.", "")
               /\ search' = NoSearch
               /\ UNCHANGED <<state, start_pos, goal_pos, wall_count>>
        /\ ((grid_start = None \/ grid_goal = None)
                /\ \E algorithm \in Algorithms : run_algorithm(algorithm))
            => /\ status_msg' = "Please set start and goal nodes!"
               /\ search' = NoSearch
               /\ UNCHANGED <<cells, grid_start, grid_goal, steps, path, pq_counter>>
        /\ ((maze_start_pos = None \/ maze_goal_pos = None) /\ Maze_solve_bfs)
            => /\ maze_info_label' = "Start and Goal must be set!"
               /\ UNCHANGED <<maze_state, maze_start_pos, maze_goal_pos, call_stack>>
      ]_vars

\* run_algorithm has refused to run without a goal on a grid that still
\* shows the visited cells of an earlier run.
C7_Witness ==
    /\ app = "PF"
    /\ status_msg = "Please set start and goal nodes!"
    /\ grid_start # None /\ grid_goal = None
    /\ \E c \in GridCells : cells[c] = "visited"

\* C8: whenever both a start and a goal are set they are different cells.
C8_StartGoalDistinct ==
    /\ (start_pos # None /\ goal_pos # None) => start_pos # goal_pos
    /\ (grid_start # None /\ grid_goal # None) => grid_start # grid_goal
    /\ (maze_start_pos # None /\ maze_goal_pos # None) => maze_start_pos # maze_goal_pos

\* C9: at most one cell is marked start and at most one goal, and the cells
\* at the start position and at the goal position are not walls.
C9_EndpointsOpen ==
    /\ Cardinality({c \in Cells : state[c] = 2}) <= 1
    /\ Cardinality({c \in Cells : state[c] = 3}) <= 1
    /\ start_pos # None => state[start_pos] # 1
    /\ goal_pos # None => state[goal_pos] # 1
    /\ Cardinality({c \in GridCells : cells[c] = "start"}) <= 1
    /\ Cardinality({c \in GridCells : cells[c] = "goal"}) <= 1
    /\ grid_start # None => cells[grid_start] # "wall"
    /\ grid_goal # None => cells[grid_goal] # "wall"
    /\ Cardinality({c \in MazeCells : maze_state[c] = "start"}) <= 1
    /\ Cardinality({c \in MazeCells : maze_state[c] = "goal"}) <= 1
    /\ maze_start_pos # None => maze_state[maze_start_pos] # "wall"
    /\ maze_goal_pos # None => maze_state[maze_goal_pos] # "wall"

\* C10: no cell is expanded twice in one search.
C10_ExpandedOnce ==
    search # NoSearch
        => /\ NoRepeat(search.expanded)
           /\ app = "PF" => NoRepeat(search.visited_order)

\* The dict e holds every entry of the dict d.
Extends(d, e) == \A k \in DOMAIN d : k \in DOMAIN e /\ e[k] = d[k]

Min(a, b) == IF a < b THEN a ELSE b

\* C11: while solve_bfs, solve_dfs or solve_ucs of AI3.py or solve_bfs of
\* Main.py runs, an entry of parent (prev) once made keeps its value, and the
\* start cell never gets an entry.
C11_PredecessorFixed ==
    [][ /\ (app = "AI3" /\ pc # "idle")
            => /\ Extends(search.parent, search'.parent)
               /\ start_pos \notin DOMAIN search'.parent
        /\ app = "Maze"
            => \A i \in 1 .. Min(Len(call_stack), Len(call_stack')) :
                  /\ Extends(call_stack[i].prev, call_stack'[i].prev)
                  /\ maze_start_pos \notin DOMAIN call_stack'[i].prev
      ]_vars

\* solve_ucs is between two iterations with a cell that it has pushed twice
\* and whose parent it has recorded.
C11_Witness ==
    /\ app = "AI3" /\ pc = "solve_ucs"
    /\ \E i, j \in 1 .. Len(search.frontier) :
          /\ i # j
          /\ search.frontier[i][2] = search.frontier[j][2]
          /\ search.frontier[i][2] \in DOMAIN search.parent

\* C12: across an iteration of a_star_search no recorded cost grows, a
\* predecessor changes only together with a strictly lower cost, a cost
\* changes only together with the predecessor, which becomes the cell being
\* expanded, and the cells with a cost are the cells with a predecessor.
C12_AStarRelaxation ==
    [][ (app = "PF" /\ pc = "A* Algorithm")
            => /\ DOMAIN search'.cost_so_far = DOMAIN search'.came_from
               /\ \A c \in DOMAIN search.cost_so_far :
                     /\ c \in DOMAIN search'.cost_so_far
                     /\ search'.cost_so_far[c] <= search.cost_so_far[c]
                     /\ search'.came_from[c] # search.came_from[c]
                           => search'.cost_so_far[c] < search.cost_so_far[c]
                     /\ search'.cost_so_far[c] # search.cost_so_far[c]
                           => search'.came_from[c] = search'.popped[Len(search'.popped)]
               /\ \A c \in DOMAIN search'.cost_so_far \ DOMAIN search.cost_so_far :
                     search'.came_from[c] = search'.popped[Len(search'.popped)]
      ]_vars

\* a_star_search is between two iterations and has pushed a cell again that
\* it had already taken from the frontier: it found a strictly lower cost.
C12_Witness ==
    /\ app = "PF" /\ pc = "A* Algorithm"
    /\ \E i \in 1 .. Len(search.frontier) : \E j \in 1 .. Len(search.popped) :
          search.frontier[i][3] = search.popped[j]

\* The search whose locals are s has taken the cell g from its frontier, as
\* the last cell it took, and has not examined the neighbours of g.
EndsAtPop(s, g) ==
    /\ s.popped # << >>
    /\ s.popped[Len(s.popped)] = g
    /\ \A i \in 1 .. Len(s.popped) - 1 : s.popped[i] # g
    /\ g \notin SeqRange(s.expanded)

\* C13: a search has found the goal exactly when the goal is the last cell it
\* took from its frontier, and it examined no neighbours of the goal; while
\* the goal is only waiting in the frontier the search goes on; the visited
\* order and self.steps never hold the goal; run_algorithm reports a path
\* exactly when the search ended this way.  In Main.py a call that is in
\* reconstruct_path has taken the goal from q, changes q, visited and prev no
\* more, and the goal is never coloured 'visited'.
C13_SuccessAtPop ==
    [][ /\ (app = "AI3" /\ search' # NoSearch)
            => /\ search'.status = "found" <=> EndsAtPop(search', goal_pos)
               /\ search'.status = "found" <=> goal_pos \in SeqRange(search'.popped)
        /\ (app = "PF" /\ search' # NoSearch)
            => /\ search'.status = "found" <=> EndsAtPop(search', grid_goal)
               /\ search'.status = "found" <=> grid_goal \in SeqRange(search'.popped)
               /\ grid_goal \notin SeqRange(search'.visited_order)
               /\ grid_goal \notin SeqRange(steps')
               /\ pc' = "idle" => (path' # << >> <=> search'.status = "found")
        /\ app = "Maze"
            => /\ maze_state'[maze_goal_pos] # "visited"
               /\ \A i \in 1 .. Len(call_stack') :
                     call_stack'[i].pc = "path_events"
                         => /\ maze_goal_pos \in call_stack'[i].visited
                            /\ maze_goal_pos \notin SeqRange(call_stack'[i].q)
               /\ \A i \in 1 .. Min(Len(call_stack), Len(call_stack')) :
                     call_stack[i].pc = "path_events"
                         => /\ call_stack'[i].pc = "path_events"
                            /\ call_stack'[i].q = call_stack[i].q
                            /\ call_stack'[i].visited = call_stack[i].visited
                            /\ call_stack'[i].prev = call_stack[i].prev
      ]_vars

\* a_star_search has found the goal after an iteration in which the goal
\* was waiting in the frontier, and cells are still waiting.
C13_Witness ==
    /\ app = "PF" /\ pc = "idle" /\ search # NoSearch
    /\ "cost_so_far" \in DOMAIN search
    /\ search.status = "found"
    /\ search.frontier # << >>
    /\ Len(search.popped) > 2
    /\ search.came_from[grid_goal] # search.popped[Len(search.popped) - 1]

\* Place of the move from c to its neighbour n in the order up, down, left,
\* right.
MoveRank(c, n) ==
    IF n[1] = c[1] - 1 THEN 1 ELSE IF n[1] = c[1] + 1 THEN 2
    ELSE IF n[2] = c[2] - 1 THEN 3 ELSE 4

\* ns lists, in the order up, down, left, right and once each, exactly the
\* cells of open that are one move from c.
IsNeighbourList(open, c, ns) ==
    /\ \A i \in 1 .. Len(ns) : ns[i] \in open /\ Adjacent(c, ns[i])
    /\ \A n \in open : Adjacent(c, n) => n \in SeqRange(ns)
    /\ \A i, j \in 1 .. Len(ns) : i < j => MoveRank(c, ns[i]) < MoveRank(c, ns[j])

\* The cells the `for dr, dc` loop of Main.py's solve_bfs puts on q for the
\* cell c when no cell is marked visited.
MazeNeighbours(c) ==
    MazeVisit(MazeCall([MazeFrame(c) EXCEPT !.q = << >>, !.visited = {}]), c, 1).frame.q

\* C14: for every cell of the grid get_neighbors of AI3.py, Grid.get_neighbors
\* of Main (2).py and the neighbour loop of Main.py's solve_bfs give exactly
\* the in-grid, non-wall cells one step up, down, left and right, in that
\* order: no wall, no cell outside the grid, no diagonal cell, not the cell
\* itself.  Stated of the grid as it is before and after each search.
C14_NeighbourList ==
    /\ (app = "AI3" /\ pc = "idle")
          => \A c \in Cells : IsNeighbourList(OpenAI3, c, get_neighbors(state, c))
    /\ (app = "PF" /\ pc = "idle")
          => \A c \in GridCells : IsNeighbourList(OpenPF, c, Grid_get_neighbors(cells, c))
    /\ (app = "Maze" /\ call_stack = << >>)
          => \A c \in MazeCells :
                IsNeighbourList({n \in MazeCells : maze_state[n] # "wall"}, c,
                                MazeNeighbours(c))

\* A search of Main (2).py has examined the neighbours of a cell in the
\* middle row that has a wall on one side and open cells above and below.
C14_Witness ==
    /\ app = "PF" /\ pc = "idle" /\ search # NoSearch
    /\ \E c \in SeqRange(search.expanded) :
          /\ c[1] = 1
          /\ \E n \in GridCells : Adjacent(c, n) /\ cells[n] = "wall"
          /\ Len(Grid_get_neighbors(cells, c)) = 3

\* C15: the path reconstruct_path returns to run_algorithm after a search
\* that found the goal begins with the start cell, ends with the goal cell,
\* and each of its cells is the recorded predecessor of the next.
C15_PathStartToGoal ==
    (app = "PF" /\ search # NoSearch /\ search.status = "found")
        => /\ path # << >>
           /\ path[1] = grid_start
           /\ path[Len(path)] = grid_goal
           /\ \A i \in 1 .. Len(path) - 1 : search.came_from[path[i + 1]] = path[i]

\* The walk along the links of the dict d from the cell c meets a cell that
\* has no predecessor in d before it reaches s.
RECURSIVE ChainBroken(_, _, _)
ChainBroken(d, s, c) ==
    IF c = s THEN FALSE
    ELSE IF c \notin DOMAIN d THEN TRUE
    ELSE IF d[c] = None THEN TRUE
    ELSE ChainBroken(d, s, d[c])

\* C16: when the walk from the goal meets a cell without a predecessor before
\* the start, the reconstruction does not return a path: draw_path_with_steps
\* raises, reconstruct_path does not return a list.
C16_BrokenChainSignalled ==
    /\ (app = "AI3" /\ search.status = "applied"
           /\ ChainBroken(search.parent, start_pos, goal_pos))
          => info_label.msg = "KeyError"
    /\ (app = "PF" /\ search.status = "applied"
           /\ ChainBroken(search.came_from, grid_start, grid_goal))
          => status_msg # "returned"

\* The cell types with the marks of an earlier run taken off.
Unmarked(cs) == [c \in DOMAIN cs |-> IF cs[c] \in {"visited", "path"} THEN "empty" ELSE cs[c]]

\* The frames a call of solve_bfs of Main.py passes through from m on, m being
\* the call at one of its processEvents() or its return.
RECURSIVE MazeFrames(_)
MazeFrames(m) ==
    IF m.frame.pc = "done" THEN {}
    ELSE {m.frame} \cup MazeFrames(IF m.frame.pc = "bfs_events" THEN MazeAfterPop(m)
                                   ELSE MazeReconLoop(m))

\* The window of Main.py when solve_bfs, called at m, has returned.
RECURSIVE MazeFinal(_)
MazeFinal(m) ==
    IF m.frame.pc = "done" THEN m
    ELSE MazeFinal(IF m.frame.pc = "bfs_events" THEN MazeAfterPop(m) ELSE MazeReconLoop(m))

\* solve_bfs of Main.py called on the layout st without marks.
MazeFirstRun(st, s, g) ==
    MazeBfsLoop([state |-> Unmarked(st), start_pos |-> s, goal_pos |-> g,
                 info_label |-> "", error |-> "", frame |-> MazeFrame(s)])

\* What run_algorithm hands to the timer when entered with pq_counter = 0.
FirstRun(algorithm, cs, s, g) ==
    LET r == IF algorithm = "A* Algorithm" THEN a_star_search(cs, s, g, 0)
             ELSE greedy_best_first_search(cs, s, g, 0)
    IN  [visited_order |-> r.visited_order, counter |-> r.counter,
         path |-> IF g \in DOMAIN r.came_from THEN reconstruct_path(s, g, r.came_from)
                  ELSE << >>]

\* C17: every run of a strategy on a grid nobody edits gives the visited
\* order and the path of the first run on that grid, whatever pq_counter and
\* whatever visited and path marks earlier runs left: run_algorithm of
\* Main (2).py returns what it returns with pq_counter = 0 on the unmarked
\* grid, and solve_bfs of Main.py passes through the frames (queue, visited
\* set, predecessors, current cell) of the run on the unmarked grid and ends
\* with its painting and its text.
C17_RerunSame ==
    /\ \A algorithm \in Algorithms :
          PFRan(algorithm) =>
             LET first == FirstRun(algorithm, Unmarked(cells), grid_start, grid_goal)
             IN  /\ search.visited_order = first.visited_order
                 /\ path = first.path
    /\ (app = "Maze" /\ call_stack # << >>)
          => call_stack[1] \in MazeFrames(MazeFirstRun(maze_state, maze_start_pos,
                                                       maze_goal_pos))
    /\ (app = "Maze" /\ call_stack = << >>
           /\ maze_info_label \in {"Path found!", "No path found!"})
          => LET final == MazeFinal(MazeFirstRun(maze_state, maze_start_pos, maze_goal_pos))
             IN  /\ maze_state = final.state
                 /\ maze_info_label = final.info_label

\* A* has run on a grid with a wall, entered with a pq_counter above 0 (it
\* leaves the counter higher than the run entered with 0 does), visited three
\* cells or more and found a path.
C17_Witness ==
    /\ PFRan("A* Algorithm")
    /\ \E c \in GridCells : cells[c] = "wall"
    /\ Len(search.visited_order) >= 3
    /\ Len(path) >= 3
    /\ search.counter > FirstRun("A* Algorithm", Unmarked(cells), grid_start,
                                 grid_goal).counter

\* C18: while a call of solve_bfs of Main.py has not returned, no event is
\* handled that starts another search or edits the grid: no further call is
\* entered, the end points stay, and a cell changes its type only by the
\* painting of the search ("visited", "path").
C18_NoEventDuringSearch ==
    [][ (app = "Maze" /\ call_stack # << >>)
           => /\ Len(call_stack') <= Len(call_stack)
              /\ maze_start_pos' = maze_start_pos
              /\ maze_goal_pos' = maze_goal_pos
              /\ \A c \in MazeCells :
                    maze_state'[c] # maze_state[c] => maze_state'[c] \in {"visited", "path"}
      ]_vars

\* C19: solve_bfs of Main.py does not modify the grid it searches: run on a
\* layout of empty, wall, start and goal cells, it returns with every cell
\* still one of these and with the end points where they were.
C19_GridUnmodified ==
    (app = "Maze" /\ call_stack = << >>)
       => /\ \A c \in MazeCells : maze_state[c] \in {"empty", "wall", "start", "goal"}
          /\ maze_start_pos # None /\ maze_state[maze_start_pos] = "start"
          /\ maze_goal_pos # None /\ maze_state[maze_goal_pos] = "goal"

\* The number of entries of seq that belong to run r.
CountRun(seq, r) == Cardinality({i \in 1 .. Len(seq) : seq[i].run = r})

\* The signal a slot of the window is connected to.
SlotSignal(slot) ==
    IF slot \in {"on_summary_complete", "on_summarization_finished"} THEN "finished"
    ELSE "error"

PoppedAt(h, h2, i) ==
    /\ Len(h2) >= Len(h) - 1
    /\ SubSeq(h2, 1, Len(h) - 1) = RemoveAt(h, i)

\* The pop that leads from h to h2 took an entry of least priority and, among
\* those, the one inserted first.
FifoPop(h, h2) ==
    \E i \in 1 .. Len(h) :
       /\ PoppedAt(h, h2, i)
       /\ \A j \in 1 .. Len(h) : h[j][1] >= h[i][1] /\ (h[j][1] = h[i][1] => j >= i)

\* The pop that leads from h to h2 took an entry of least cost and, among
\* those, one with the least (row, col).
CellPop(h, h2) ==
    \E i \in 1 .. Len(h) :
       /\ PoppedAt(h, h2, i)
       /\ \A j \in 1 .. Len(h) :
             h[j][1] >= h[i][1] /\ (h[j][1] = h[i][1] => ~CellLess(h[j][2], h[i][2]))

\* an iteration of the loop of solve_ucs (of a search of Main (2).py) that
\* pops an entry is about to run
UcsPops == app = "AI3" /\ pc = "solve_ucs" /\ search.frontier # << >>

PqPops == app = "PF" /\ pc \in Algorithms /\ search.frontier # << >>

\* C23 as stated: in UCS, A* and greedy every pop takes, among the entries of
\* least priority, the one inserted first.
C23_InsertionOrderAll ==
    [][ /\ UcsPops => FifoPop(search.frontier, search'.frontier)
        /\ PqPops => FifoPop(search.frontier, search'.frontier)
      ]_vars

\* C23 amended: in A* and greedy every pop takes, among the entries of least
\* priority, the one inserted first; in UCS it takes, among the entries of
\* least cost, one with the least (row, col).
C23_TieBreak ==
    [][ /\ UcsPops => CellPop(search.frontier, search'.frontier)
        /\ PqPops => FifoPop(search.frontier, search'.frontier)
      ]_vars

\* A* is about to pop with two entries of least priority in its frontier, the
\* one inserted first holding the greater cell.
C23_Witness ==
    /\ PqPops /\ pc = "A* Algorithm"
    /\ search.popped # << >>
    /\ \E i, j \in 1 .. Len(search.frontier) :
          /\ i < j
          /\ search.frontier[i][1] = search.frontier[j][1]
          /\ \A k \in 1 .. Len(search.frontier) :
                search.frontier[k][1] >= search.frontier[i][1]
          /\ CellLess(search.frontier[j][3], search.frontier[i][3])

\* C26: solve_ucs reports a path exactly when solve_bfs does on the same
\* layout, and then with the same number of steps, which is the least number
\* of moves from start to goal.
C26_UcsEqualsBfs ==
    AI3Ran("UCS")
       => /\ (info_label.msg = "Path found") <=> (BfsSteps(state, start_pos, goal_pos) >= 0)
          /\ info_label.msg = "Path found"
                => /\ info_label.steps = BfsSteps(state, start_pos, goal_pos)
                   /\ info_label.steps = MinMoves(OpenAI3, start_pos, goal_pos)

\* solve_ucs has reported a path around walls, having popped a cell it had
\* finalized before.
C26_Witness ==
    /\ AI3Ran("UCS") /\ info_label.msg = "Path found"
    /\ wall_count > 0
    /\ info_label.steps > Manhattan(start_pos, goal_pos)
    /\ Len(search.popped) > Len(search.expanded) + 1

\* Every cell of the visualizer has type 'empty' and start and goal are unset:
\* the grid as Reset Grid and Clear All leave it.
GridCleared ==
    /\ \A c \in GridCells : cells[c] = "empty"
    /\ grid_start = None
    /\ grid_goal = None

\* C27: the grid Reset Grid or Clear All has emptied stays empty, with start
\* and goal unset, until a mouse click on the grid: a step from the emptied
\* grid either leaves it emptied or gives cells the types a click gives
\* (start, goal, wall), also while the timer of a visualization is running.
C27_ClearedUntilClick ==
    [][ (app = "PF" /\ GridCleared)
           => \/ GridCleared'
              \/ \E c \in GridCells : cells'[c] \in {"start", "goal", "wall"}
      ]_vars

\* C30: when a run of SummarizerApp is over and the re-enabled button can
\* start the next one (nothing is left in the window's event queue), the
\* thread of the run has been told to quit or has finished, whether the run
\* ended with a result or with an error.
C30_ThreadStopped ==
    (app = "Summarizer" /\ runs > 0 /\ summarize_button /\ event_queue = << >>)
       => summarization_thread \in {"quit", "finished"}

\* C21: a summarizer window is never closed, the application exiting, while
\* run() of a summarization worker has not returned.
C21_CloseWaitsForWorker ==
    (app \in SummarizerApps /\ window = "closed") => worker # "started"

\* C22: every row of the history table of SummarizerApp pairs a summary with
\* the text that was submitted to produce it.
C22_HistoryPairsInput ==
    app = "Summarizer"
       => \A i \in 1 .. Len(history) :
             history[i].summary_text = Summary(history[i].original_text)

\* C28: in the extractive summarizer, once the result or error slot of the
\* last started run has been called the Summarize button is enabled and the
\* progress bar hidden.
C28_ButtonEnabledAgain ==
    (app \in ArticleApps /\ runs > 0 /\ CountRun(handled, runs) = 1)
       => summarize_button /\ ~progress_bar

\* No row, column or box of the board holds the same digit twice.
SameUnit(c, d) ==
    \/ c[1] = d[1]
    \/ c[2] = d[2]
    \/ (c[1] \div BOX = d[1] \div BOX /\ c[2] \div BOX = d[2] \div BOX)

NoRepeatedDigit(board) ==
    \A c, d \in SudokuCells :
        (c # d /\ SameUnit(c, d) /\ board[c] # 0) => board[c] # board[d]

\* C24: for every board that get_board accepts, boards whose given digits
\* already conflict included, when solve_board returns True every cell of the
\* board holds a digit of 1 .. SIZE, every cell that was filled keeps its digit,
\* and no row, column or box holds the same digit twice.
C24_SolvedBoardValid ==
    (app = "Sudoku" /\ solve_call.called /\ solve_call.ok)
       => /\ \A c \in SudokuCells :
                /\ solve_call.result[c] \in Digits
                /\ solve_call.board[c] # 0 => solve_call.result[c] = solve_call.board[c]
          /\ NoRepeatedDigit(solve_call.result)

\* C25: hint_count stays within 0 .. max_hints, which is 5; provide_hint fills at
\* most max_hints cells between two resets of the board; and a hint request that
\* meets the limit changes no cell.
C25_HintLimit ==
    /\ [](app = "Sudoku" => /\ hint_count \in 0 .. max_hints
                            /\ max_hints = 5
                            /\ Len(hints) <= max_hints)
    /\ [][ (app = "Sudoku" /\ sudoku_msg' = "Hint Limit")
              => (hint_count = max_hints /\ sudoku_cells' = sudoku_cells) ]_vars

\* The limit is reached with an empty cell left on a board get_board accepts,
\* and the next request is answered with "Hint Limit".
C25_Witness ==
    /\ app = "Sudoku"
    /\ hint_count = max_hints
    /\ Len(hints) = max_hints
    /\ sudoku_msg = "Hint Limit"
    /\ get_board # NoBoard
    /\ FirstEmpty(sudoku_cells) < SIZE * SIZE

\* C29: every digit provide_hint writes into an empty cell repeats no digit of
\* the cell's row, column or box on the board shown when the hint is asked for.
C29_HintConsistent ==
    [][ (app = "Sudoku" /\ Len(hints') > Len(hints))
           => LET h == hints'[Len(hints')]
              IN is_valid(sudoku_cells, h.cell[1], h.cell[2], h.num) ]_vars


====
